---------------------------- MODULE Spec2Model ----------------------------
(***************************************************************************)
(* Funding-rate bot: the scheduler loop (funding_spread_db.py main), the    *)
(* Rate Store (funding_database.py FundingDatabase), the alert composer    *)
(* (create_alerts_by_level) and the dispatcher (send_telegram).            *)
(*                                                                         *)
(* One module, several specifications over the same variables:             *)
(*   SpecSched  the scheduler loop against the wall clock                  *)
(*   SpecStore  calls of the FundingDatabase API, default thresholds       *)
(*   SpecPass   one collection pass writing its transaction, with a        *)
(*              concurrent reader                                          *)
(*   SpecSend   the retry loop of one send_telegram call                   *)
(*   SpecAlerts the alert composer under every pair of thresholds          *)
(*   SpecCollect one exchange's workers under the semaphore                *)
(*   SpecNorm   normalize_symbol and extract_ticker on symbol spellings    *)
(*   SpecCache  the symbol-list refresh of funding_spread_cached.py        *)
(*   SpecPayout, SpecTemplate, SpecChunk  the text helpers                 *)
(*   SpecFlush  one dispatch batch of flush_alerts_from_database           *)
(*   SpecExtract  _extract_funding_info on the responses of the exchanges  *)
(* Each specification leaves the variables of the other parts unchanged.   *)
(***************************************************************************)
EXTENDS Integers, Sequences, FiniteSets, TLC

VARIABLES
    \* ---- scheduler (funding_spread_db.py main) ----
    clock,                  \* wall clock, in units of 60/TicksPerMinute seconds
    sched_pc,               \* position of main(): tick, collecting, hung, check_alert, alerting, sleeping, raised
    current_minute,         \* main: current_minute = now.minute of the last tick
    last_alert_minute,      \* main: last_alert_minute
    last_collection_minute, \* main: last_collection_minute
    passes_saved,           \* number of collection passes persisted so far
    collectFiredAt,         \* history: absolute minute at which collection last fired (-1: never)
    alertFiredAt            \* history: absolute minute at which alerting last fired (-1: never)

schedVars == <<clock, sched_pc, current_minute, last_alert_minute,
               last_collection_minute, passes_saved, collectFiredAt, alertFiredAt>>

\* ---- Rate Store and alert composer ----
VARIABLES
    funding_rates,              \* table funding_rates: the set of its rows
    db_now,                     \* int(time.time()), seconds
    db_call,                    \* the FundingDatabase call just executed (NoCall between calls)
    FUNDING_THRESHOLD_LEVEL_1,  \* configured threshold of tier 1, in 1/100 percent
    FUNDING_THRESHOLD_LEVEL_2   \* configured threshold of tier 2, in 1/100 percent

storeVars == <<funding_rates, db_now, db_call,
               FUNDING_THRESHOLD_LEVEL_1, FUNDING_THRESHOLD_LEVEL_2>>

\* ---- one collection pass (collect_funding_data) ----
VARIABLES
    pass_pc,            \* idle, collecting, saving, stats
    pass_next,          \* index in Exchanges of the exchange collected next
    pass_running,       \* the exchanges whose _check_exchange is awaited
    all_funding_data,   \* collect_funding_data: all_funding_data, built exchange by exchange
    current_time,       \* save_funding_rates: current_time
    txn,                \* the table as the writing connection sees it, commit pending
    txn_todo,           \* save_funding_rates: the tickers of all_tickers not written yet
    pass_before         \* history: the committed table when the pass started

passVars == <<pass_pc, pass_next, pass_running, all_funding_data, current_time,
              txn, txn_todo, pass_before>>

\* ---- dispatcher (send_telegram) ----
VARIABLES
    bot_token,      \* send_telegram: bot_token ("" when not configured)
    chat_id,        \* send_telegram: chat_id ("" when not configured)
    send_pc,        \* idle, post, wait, done
    attempt,        \* the loop variable of "for attempt in range(1, TELEGRAM_MAX_RETRIES + 1)"
    wait_s,         \* seconds of the asyncio.sleep in progress
    send_log,       \* the kind of the last line the call logged
    send_ret,       \* what the call returned to its caller ("pending" until it returns)
    payload,        \* the json payload of the delivery requests
    responses       \* history: the outcome of every delivery request of the call

sendVars == <<bot_token, chat_id, send_pc, attempt, wait_s, send_log, send_ret, payload,
              responses>>

\* ---- collector of one exchange (_check_exchange) ----
VARIABLES
    cx_pc,           \* idle, gather, returned
    cx_exchange,     \* _check_exchange: exchange
    cx_symbols,      \* _check_exchange: symbols
    concurrency,     \* _check_exchange: concurrency, the initial value of the semaphore
    sem,             \* the value of the semaphore: the permits left
    worker_pc,       \* per worker (index in symbols): queued, fetching, sleeping, done, raised
    fetched,         \* history, per worker: pending, ok, malformed, failed
    cx_funding_data  \* _check_exchange: funding_data, items in insertion order

collectVars == <<cx_pc, cx_exchange, cx_symbols, concurrency, sem, worker_pc, fetched,
                 cx_funding_data>>

\* ---- normalizer (normalize_symbol, extract_ticker) ----
VARIABLES
    nz_pc,          \* input, normalized
    nz_base,        \* history: the base asset the input symbol was spelled from
    nz_kind,        \* history: the input is an exchange "spelling" or a "canonical" pair
    nz_symbol,      \* normalize_symbol: symbol
    nz_exchange,    \* normalize_symbol: exchange
    nz_normalized,  \* the value normalize_symbol returned
    nz_again,       \* the value normalize_symbol returned for nz_normalized
    nz_ticker       \* the value extract_ticker returned for nz_normalized

normVars == <<nz_pc, nz_base, nz_kind, nz_symbol, nz_exchange, nz_normalized, nz_again, nz_ticker>>

\* ---- symbol cache (funding_spread_cached.py *_get_symbols) ----
VARIABLES
    cache_file,     \* the cache file of the exchange: None while it does not exist
    sc_pc,          \* idle, get, returned, raised
    cached,         \* *_get_symbols: cached
    sc_outcome,     \* history: what the request ended with
    all_symbols,    \* *_get_symbols: all_symbols
    sc_ret,         \* the list the call returned (None until it returns)
    sc_before       \* history: the cache file when the call began

cacheVars == <<cache_file, sc_pc, cached, sc_outcome, all_symbols, sc_ret, sc_before>>

\* ---- formatting helpers (format_time_until_payout, format_template, chunk_text) ----
VARIABLES
    po_pc,          \* input, returned
    po_diff,        \* seconds from now to the settlement time (negative: past)
    po_result,      \* the string format_time_until_payout returned
    tp_pc,          \* input, returned, raised
    tp_template,    \* the template text, as its literal pieces and replacement fields
    tp_kwargs,      \* the names for which a value is supplied
    tp_result,      \* the string format_template returned
    ck_pc,          \* input, returned
    ck_lines,       \* chunk_text: lines
    max_chars,      \* chunk_text: max_chars
    chunks          \* the list chunk_text returned

fmtVars == <<po_pc, po_diff, po_result, tp_pc, tp_template, tp_kwargs, tp_result,
             ck_pc, ck_lines, max_chars, chunks>>

\* ---- dispatch batch (flush_alerts_from_database) ----
VARIABLES
    fl_pc,              \* input, header1, level1, header2, level2, returned
    level_1_messages,   \* flush_alerts_from_database: level_1_messages
    level_2_messages,   \* flush_alerts_from_database: level_2_messages
    fl_index,           \* position of the for loop in the list of its level
    fl_sleeping,        \* TRUE inside "await asyncio.sleep(TELEGRAM_CHUNK_DELAY)"
    fl_now,             \* seconds since the batch began
    fl_sent             \* history: the sends of the batch, each with its start and end

flushVars == <<fl_pc, level_1_messages, level_2_messages, fl_index, fl_sleeping, fl_now,
               fl_sent>>

\* ---- response parsing (_extract_funding_info) ----
VARIABLES
    xi_pc,          \* input, returned
    xi_exchange,    \* _extract_funding_info: exchange
    xi_data,        \* _extract_funding_info: data, the parsed response
    xi_time,        \* time.time() * 1000 when the response is parsed
    xi_result       \* the dict _extract_funding_info returned (None: None)

extractVars == <<xi_pc, xi_exchange, xi_data, xi_time, xi_result>>

restVars == <<flushVars, extractVars>>

vars == <<schedVars, storeVars, passVars, sendVars, collectVars, normVars, cacheVars,
          fmtVars, restVars>>

\* what each part leaves alone
nonSchedVars == <<storeVars, passVars, sendVars, collectVars, normVars, cacheVars, fmtVars, restVars>>
nonStoreVars == <<schedVars, passVars, sendVars, collectVars, normVars, cacheVars, fmtVars, restVars>>
nonPassVars == <<schedVars, sendVars, collectVars, normVars, cacheVars, fmtVars, restVars>>
nonSendVars == <<schedVars, storeVars, passVars, collectVars, normVars, cacheVars, fmtVars, restVars>>
nonCollectVars == <<schedVars, storeVars, passVars, sendVars, normVars, cacheVars, fmtVars, restVars>>
nonNormVars == <<schedVars, storeVars, passVars, sendVars, collectVars, cacheVars, fmtVars, restVars>>
nonCacheVars == <<schedVars, storeVars, passVars, sendVars, collectVars, normVars, fmtVars, restVars>>
nonFmtVars == <<schedVars, storeVars, passVars, sendVars, collectVars, normVars, cacheVars, restVars>>
nonFlushVars == <<schedVars, storeVars, passVars, sendVars, collectVars, normVars, cacheVars,
                  fmtVars, extractVars>>
nonExtractVars == <<schedVars, storeVars, passVars, sendVars, collectVars, normVars, cacheVars,
                    fmtVars, flushVars>>

(***************************************************************************)
(* Bounds of the model                                                     *)
(***************************************************************************)
\* clock units per wall-clock minute (2: the clock moves in steps of 30 s)
TicksPerMinute == 2
\* the scheduler is followed for this many minutes past the first two hours
HorizonSlack == 5
\* longest duration of one collection pass or one dispatch batch, in clock units
MaxWork == 3

Horizon == (120 + HorizonSlack) * TicksPerMinute

(***************************************************************************)
(* Scheduler: funding_spread_db.py                                         *)
(***************************************************************************)
\* ALERT_TIMES = [1, 8, 15, 18, 20, 25, 30, 35, 40, 45, 50, 55, 56, 57, 58, 59]
ALERT_TIMES == {1, 8, 15, 18, 20, 25, 30, 35, 40, 45, 50, 55, 56, 57, 58, 59}

\* datetime.datetime.now().minute for a clock value
MinuteOfHour(t) == (t \div TicksPerMinute) % 60

\* the wall-clock minute since the start of the model's time axis
AbsMinute(t) == t \div TicksPerMinute

\* should_collect_data(): now.minute == 30
should_collect_data(t) == MinuteOfHour(t) = 30

\* should_send_alert() / "current_minute in ALERT_TIMES"
should_send_alert(minute) == minute \in ALERT_TIMES

\* a plausible slip: the last-minute guard of the collection trigger is missing
CollectionTriggerNoGuard(t, minute, last) == should_collect_data(t)

\* main: "if should_collect_data() and current_minute != last_collection_minute"
\* (should_collect_data reads the clock again right after main read it; both
\* reads fall on the same clock value of the model)
CollectionTrigger(t, minute, last) == should_collect_data(t) /\ minute # last

\* main: "if current_minute in ALERT_TIMES and current_minute != last_alert_minute"
AlertTrigger(minute, last) == should_send_alert(minute) /\ minute # last

\* asyncio.sleep(60), in clock units
SleepUnits == TicksPerMinute

\* main() before the loop; the process may start at any time of an hour
SchedStart ==
    /\ clock \in 0 .. (60 * TicksPerMinute - 1)
    /\ sched_pc = "tick"
    /\ current_minute = -1
    /\ last_alert_minute = -1
    /\ last_collection_minute = -1
    /\ passes_saved = 0
    /\ collectFiredAt = -1
    /\ alertFiredAt = -1

\* top of the while loop: read the clock, decide on collection
Tick ==
    /\ sched_pc = "tick"
    /\ current_minute' = MinuteOfHour(clock)
    /\ IF CollectionTrigger(clock, MinuteOfHour(clock), last_collection_minute)
         THEN /\ last_collection_minute' = MinuteOfHour(clock)
              /\ collectFiredAt' = AbsMinute(clock)
              /\ sched_pc' = "collecting"
         ELSE /\ UNCHANGED <<last_collection_minute, collectFiredAt>>
              /\ sched_pc' = "check_alert"
    /\ UNCHANGED <<clock, last_alert_minute, passes_saved, alertFiredAt>>
    /\ UNCHANGED nonSchedVars

\* main awaits collect_funding_data(), which awaits the gather of an exchange,
\* one of whose requests has not completed: time passes, nothing else runs
RequestHangs ==
    /\ sched_pc \in {"collecting", "hung"}
    /\ clock + 1 <= Horizon
    /\ clock' = clock + 1
    /\ sched_pc' = "hung"
    /\ UNCHANGED <<current_minute, last_alert_minute, last_collection_minute,
                   passes_saved, collectFiredAt, alertFiredAt>>
    /\ UNCHANGED nonSchedVars

\* await collect_funding_data(): the pass takes d clock units and persists
\* (after a hang: the request has ended at last, e.g. by a timeout of the
\* HTTP library)
CollectFundingData ==
    /\ sched_pc \in {"collecting", "hung"}
    /\ \E d \in 0 .. MaxWork :
          /\ clock + d <= Horizon
          /\ clock' = clock + d
    /\ passes_saved' = passes_saved + 1
    /\ sched_pc' = "check_alert"
    /\ UNCHANGED <<current_minute, last_alert_minute, last_collection_minute,
                   collectFiredAt, alertFiredAt>>
    /\ UNCHANGED nonSchedVars

\* await collect_funding_data() where db.save_symbols, db.save_funding_rates
\* or db.get_database_stats raises (sqlite3.Error): nothing in
\* collect_funding_data or main catches it, so it leaves main, and
\* "except KeyboardInterrupt" around asyncio.run(main()) does not take it
PersistenceError ==
    /\ sched_pc \in {"collecting", "hung"}
    /\ \E d \in 0 .. MaxWork :
          /\ clock + d <= Horizon
          /\ clock' = clock + d
    /\ \E saved \in {0, 1} : passes_saved' = passes_saved + saved
    /\ sched_pc' = "raised"
    /\ UNCHANGED <<current_minute, last_alert_minute, last_collection_minute,
                   collectFiredAt, alertFiredAt>>
    /\ UNCHANGED nonSchedVars

\* the alert condition of the same tick, on the minute read at the top
CheckAlert ==
    /\ sched_pc = "check_alert"
    /\ IF AlertTrigger(current_minute, last_alert_minute)
         THEN /\ last_alert_minute' = current_minute
              /\ alertFiredAt' = AbsMinute(clock)
              /\ sched_pc' = "alerting"
         ELSE /\ UNCHANGED <<last_alert_minute, alertFiredAt>>
              /\ sched_pc' = "sleeping"
    /\ UNCHANGED <<clock, current_minute, last_collection_minute, passes_saved,
                   collectFiredAt>>
    /\ UNCHANGED nonSchedVars

\* await flush_alerts_from_database(): the batch takes d clock units
FlushAlerts ==
    /\ sched_pc = "alerting"
    /\ \E d \in 0 .. MaxWork :
          /\ clock + d <= Horizon
          /\ clock' = clock + d
    /\ sched_pc' = "sleeping"
    /\ UNCHANGED <<current_minute, last_alert_minute, last_collection_minute,
                   passes_saved, collectFiredAt, alertFiredAt>>
    /\ UNCHANGED nonSchedVars

\* await asyncio.sleep(60)
Sleep ==
    /\ sched_pc = "sleeping"
    /\ clock + SleepUnits <= Horizon
    /\ clock' = clock + SleepUnits
    /\ sched_pc' = "tick"
    /\ UNCHANGED <<current_minute, last_alert_minute, last_collection_minute,
                   passes_saved, collectFiredAt, alertFiredAt>>
    /\ UNCHANGED nonSchedVars

NextSched ==
    \/ Tick
    \/ RequestHangs
    \/ CollectFundingData
    \/ PersistenceError
    \/ CheckAlert
    \/ FlushAlerts
    \/ Sleep


(***************************************************************************)
(* Strings: a string is the sequence of its characters                     *)
(***************************************************************************)
\* the characters of symbols, in ASCII order ("-" 45, "/" 47, digits, letters, "_" 95)
CharOrder ==
    << "-", "/", "0", "1", "2", "3", "4", "5", "6", "7", "8", "9",
       "A", "B", "C", "D", "E", "F", "G", "H", "I", "J", "K", "L", "M",
       "N", "O", "P", "Q", "R", "S", "T", "U", "V", "W", "X", "Y", "Z", "_" >>

Ord(c) == CHOOSE i \in 1 .. Len(CharOrder) : CharOrder[i] = c

\* s < t in the byte order SQLite's ORDER BY uses for TEXT (BINARY collation)
RECURSIVE StrLess(_, _)
StrLess(s, t) ==
    IF t = <<>> THEN FALSE
    ELSE IF s = <<>> THEN TRUE
    ELSE IF Head(s) = Head(t) THEN StrLess(Tail(s), Tail(t))
    ELSE Ord(Head(s)) < Ord(Head(t))

\* s.startswith(p)
StartsWith(s, p) == Len(p) <= Len(s) /\ SubSeq(s, 1, Len(p)) = p

\* "p in s"
Contains(s, p) == \E i \in 0 .. (Len(s) - Len(p)) : SubSeq(s, i + 1, i + Len(p)) = p

\* s.replace(old, new): every non-overlapping occurrence, left to right
RECURSIVE Replace(_, _, _)
Replace(s, old, new) ==
    IF Len(s) < Len(old) THEN s
    ELSE IF StartsWith(s, old)
         THEN new \o Replace(SubSeq(s, Len(old) + 1, Len(s)), old, new)
    ELSE <<Head(s)>> \o Replace(Tail(s), old, new)

\* s.split(c) for a one-character separator: the list of parts
RECURSIVE Split(_, _)
Split(s, c) ==
    IF \A i \in 1 .. Len(s) : s[i] # c THEN <<s>>
    ELSE LET k == CHOOSE i \in 1 .. Len(s) :
                      s[i] = c /\ \A j \in 1 .. (i - 1) : s[j] # c
         IN  <<SubSeq(s, 1, k - 1)>> \o Split(SubSeq(s, k + 1, Len(s)), c)

USDT == <<"U", "S", "D", "T">>
USD == <<"U", "S", "D">>

(***************************************************************************)
(* Normalizer: funding_database.py normalize_symbol, extract_ticker        *)
(***************************************************************************)
\* a plausible slip: the underscore separator of MEXC is left in place
StripSuffixesKeepUnderscore(symbol) ==
    Replace(Replace(symbol, <<"_", "U", "M", "C", "B", "L">>, <<>>),
            <<"-", "S", "W", "A", "P">>, <<>>)

\* the three replace calls that remove the exchange-specific suffixes
StripSuffixes(symbol) ==
    Replace(Replace(Replace(symbol, <<"_", "U", "M", "C", "B", "L">>, <<>>),
                    <<"-", "S", "W", "A", "P">>, <<>>),
            <<"_">>, <<>>)

normalize_symbol(symbol, exchange) ==
    LET s == StripSuffixes(symbol)
        parts == Split(s, "-")
    IN  IF Contains(s, <<"-">>) /\ (Contains(s, USDT) \/ Contains(s, USD))
             /\ Len(parts) >= 2
        THEN parts[1] \o <<"/">> \o parts[2]
        ELSE IF Contains(s, USDT) THEN Replace(s, USDT, <<>>) \o <<"/">> \o USDT
        ELSE IF Contains(s, USD) THEN Replace(s, USD, <<>>) \o <<"/">> \o USD
        ELSE s

\* a plausible slip: the pair is taken as the ticker
extract_tickerWhole(normalized_symbol) == normalized_symbol

extract_ticker(normalized_symbol) ==
    IF Contains(normalized_symbol, <<"/">>)
    THEN Split(normalized_symbol, "/")[1]
    ELSE normalized_symbol

(***************************************************************************)
(* Rate Store: funding_database.py FundingDatabase                         *)
(***************************************************************************)
\* the exchanges, in the order of ex_symbols in collect_funding_data
Exchanges == <<"Binance", "Bybit", "OKX", "Bitget", "MEXC">>
ExchangeSet == {Exchanges[i] : i \in 1 .. Len(Exchanges)}

\* exchange.lower(): the column prefix of an exchange
ExchangeLower(exchange) ==
    CASE exchange = "Binance" -> "binance"
      [] exchange = "Bybit"   -> "bybit"
      [] exchange = "OKX"     -> "okx"
      [] exchange = "Bitget"  -> "bitget"
      [] exchange = "MEXC"    -> "mexc"

\* the column prefixes, in the order of the rate columns of the table
RateColumns == <<"binance", "bybit", "okx", "mexc", "bitget">>
Slots == {RateColumns[i] : i \in 1 .. Len(RateColumns)}

\* an optional value: None is <<>>, a value v is <<v>>
None == <<>>
Some(v) == <<v>>

SymBTCUSDT == <<"B", "T", "C", "U", "S", "D", "T">>
SymBTCUSD == <<"B", "T", "C", "U", "S", "D">>
SymBTCSwap == <<"B", "T", "C", "-", "U", "S", "D", "T", "-", "S", "W", "A", "P">>
SymETHUSDT == <<"E", "T", "H", "U", "S", "D", "T">>
SymSOLUmcbl == <<"S", "O", "L", "U", "S", "D", "T", "_", "U", "M", "C", "B", "L">>
SymETHMexc == <<"E", "T", "H", "_", "U", "S", "D", "T">>

\* the symbols each exchange lists (its symbols cache file)
SymbolPool(exchange) ==
    CASE exchange = "Binance" -> {SymBTCUSDT, SymBTCUSD}
      [] exchange = "Bybit"   -> {SymETHUSDT}
      [] exchange = "OKX"     -> {SymBTCSwap}
      [] exchange = "Bitget"  -> {SymSOLUmcbl}
      [] exchange = "MEXC"    -> {SymETHMexc}

\* the normalisation of every listed symbol, computed once
TickerTable ==
    [e \in ExchangeSet |->
        [s \in SymbolPool(e) |-> extract_ticker(normalize_symbol(s, e))]]

\* the ticker a symbol of an exchange is stored under:
\* extract_ticker(normalize_symbol(symbol, exchange))
SymbolTicker(symbol, exchange) == TickerTable[exchange][symbol]

\* a plausible slip: the ticker comparison is missing when the slots are filled
EntryMatchesAlways(ticker, symbol, exchange) == TRUE

\* "if symbol_ticker == ticker"
EntryMatches(ticker, symbol, exchange) == SymbolTicker(symbol, exchange) = ticker

\* all_tickers: the tickers of every symbol of the input
\* funding_data maps each exchange to its dict symbol -> funding_info, a dict
\* being the sequence of its <<symbol, funding_info>> items in insertion order
AllTickers(funding_data) ==
    UNION { {SymbolTicker(funding_data[e][i][1], e) : i \in 1 .. Len(funding_data[e])} :
            e \in DOMAIN funding_data }

\* the value a slot of one exchange ends with: the loop over the items of the
\* exchange overwrites it at every matching symbol, so the last match stays
RECURSIVE FillSlot(_, _, _, _)
FillSlot(ticker, exchange, items, acc) ==
    IF items = <<>> THEN acc
    ELSE FillSlot(ticker, exchange, Tail(items),
                  IF EntryMatches(ticker, Head(items)[1], exchange)
                  THEN Some(Head(items)[2]) ELSE acc)

\* a plausible slip: the column prefix is the exchange name as given, not
\* lower-cased, so no column of the table takes the value
SlotInfoNoLower(ticker, funding_data, slot) ==
    LET es == {e \in DOMAIN funding_data : e = slot}
    IN  IF es = {} THEN None
        ELSE LET e == CHOOSE x \in es : TRUE
             IN  FillSlot(ticker, e, funding_data[e], None)

\* the funding_info stored for a column prefix: None, or that of the exchange
\* whose lower-cased name is the prefix
SlotInfo(ticker, funding_data, slot) ==
    LET es == {e \in DOMAIN funding_data : ExchangeLower(e) = slot}
    IN  IF es = {} THEN None
        ELSE LET e == CHOOSE x \in es : TRUE
             IN  FillSlot(ticker, e, funding_data[e], None)

\* one column group of a record from the funding_info of each slot
Column(infos, field) ==
    [s \in Slots |-> IF infos[s] = None THEN None ELSE Some(infos[s][1][field])]

\* the row written for a ticker: "rates" initialised to None, filled from the
\* input, with the current time
BuildRecord(ticker, funding_data, now) ==
    LET infos == [s \in Slots |-> SlotInfo(ticker, funding_data, s)]
    IN  [ ticker      |-> ticker,
          timestamp   |-> now,
          rate        |-> Column(infos, "rate"),
          next_settle |-> Column(infos, "nextSettleTime"),
          cycle       |-> Column(infos, "collectCycle") ]

\* a plausible slip: a plain INSERT into a table without the primary key
InsertNoKey(table, row) == table \cup {row}

\* INSERT OR REPLACE INTO funding_rates, ticker being the PRIMARY KEY: the row
\* in conflict is deleted, then the new row is inserted
InsertOrReplace(table, row) == {r \in table : r.ticker # row.ticker} \cup {row}

\* the loop "for ticker in all_tickers" over a set of tickers still to write
RECURSIVE WriteTickers(_, _, _, _)
WriteTickers(table, tickers, funding_data, now) ==
    IF tickers = {} THEN table
    ELSE LET t == CHOOSE x \in tickers : TRUE
         IN  WriteTickers(InsertOrReplace(table, BuildRecord(t, funding_data, now)),
                          tickers \ {t}, funding_data, now)

\* a plausible slip: the table is emptied before the tickers are written
save_funding_ratesFresh(table, funding_data, now) ==
    WriteTickers({}, AllTickers(funding_data), funding_data, now)

\* save_funding_rates(funding_data), committed
save_funding_rates(table, funding_data, now) ==
    WriteTickers(table, AllTickers(funding_data), funding_data, now)

\* abs(r)
Abs(r) == IF r < 0 THEN 0 - r ELSE r

\* a plausible slip: the sign of the rate is kept
MaxRateSigned(rate) ==
    LET vals == {rate[s][1] : s \in {x \in Slots : rate[x] # None}} \cup
                (IF \A s \in Slots : rate[s] = None THEN {0} ELSE {})
    IN  CHOOSE m \in vals : \A v \in vals : v <= m

\* max([abs(r) for r in rate_values if r is not None] or [0])
MaxRate(rate) ==
    LET vals == {Abs(rate[s][1]) : s \in {x \in Slots : rate[x] # None}} \cup
                (IF \A s \in Slots : rate[s] = None THEN {0} ELSE {})
    IN  CHOOSE m \in vals : \A v \in vals : v <= m

\* SELECT ... FROM funding_rates ORDER BY ticker: the rows, smallest ticker first
RECURSIVE RowsByTicker(_)
RowsByTicker(table) ==
    IF table = {} THEN <<>>
    ELSE LET r == CHOOSE x \in table :
                      \A y \in table : y = x \/ ~ StrLess(y.ticker, x.ticker)
         IN  <<r>> \o RowsByTicker(table \ {r})

\* the item of the result list made from a row
ResultItem(row) ==
    [ ticker |-> row.ticker,
      rates  |-> [rate |-> row.rate, next_settle |-> row.next_settle, cycle |-> row.cycle] ]

\* the loop over the fetched rows: keep a row when max_rate >= threshold
RECURSIVE FilterRows(_, _)
FilterRows(rows, threshold) ==
    IF rows = <<>> THEN <<>>
    ELSE (IF MaxRate(Head(rows).rate) >= threshold
          THEN <<ResultItem(Head(rows))>> ELSE <<>>)
         \o FilterRows(Tail(rows), threshold)

\* get_latest_funding_rates(threshold)
get_latest_funding_rates(table, threshold) == FilterRows(RowsByTicker(table), threshold)

\* cutoff_time = int(time.time()) - (days_to_keep * 24 * 60 * 60)
CutoffTime(now, days_to_keep) == now - (days_to_keep * 24 * 60 * 60)

\* a plausible slip: the record dated exactly at the cutoff is deleted as well
cleanup_old_dataInclusive(table, now, days_to_keep) ==
    {r \in table : ~ (r.timestamp <= CutoffTime(now, days_to_keep))}

\* cleanup_old_data(days_to_keep): the table after the DELETE
cleanup_old_data(table, now, days_to_keep) ==
    {r \in table : ~ (r.timestamp < CutoffTime(now, days_to_keep))}

(***************************************************************************)
(* Alert composer: funding_spread_db.py create_alerts_by_level,            *)
(* message_templates.py format_ticker_message                              *)
(***************************************************************************)
\* the exchange lines of a message: one per exchange with a rate, in the
\* order binance, bybit, okx, mexc, bitget
RECURSIVE ExchangeLines(_, _)
ExchangeLines(rates, i) ==
    IF i > Len(RateColumns) THEN <<>>
    ELSE (IF rates.rate[RateColumns[i]] # None
          THEN << [ exchange    |-> RateColumns[i],
                    rate        |-> rates.rate[RateColumns[i]][1],
                    cycle       |-> rates.cycle[RateColumns[i]],
                    next_settle |-> rates.next_settle[RateColumns[i]] ] >>
          ELSE <<>>)
         \o ExchangeLines(rates, i + 1)

\* format_ticker_message(ticker, rates, max_rate): the ticker box and the lines
format_ticker_message(ticker, rates, max_rate) ==
    [ticker |-> ticker, lines |-> ExchangeLines(rates, 1)]

\* a plausible slip: tier 2 as a disjoint bucket, its tickers left out of tier 1
RECURSIVE LevelMessagesDisjoint(_, _, _, _)
LevelMessagesDisjoint(items, t1, t2, acc) ==
    IF items = <<>> THEN acc
    ELSE LET max_rate == MaxRate(Head(items).rates.rate)
             message == format_ticker_message(Head(items).ticker, Head(items).rates, max_rate)
         IN  LevelMessagesDisjoint(Tail(items), t1, t2,
                 IF max_rate >= t2
                 THEN <<acc[1], Append(acc[2], message)>>
                 ELSE IF max_rate >= t1
                 THEN <<Append(acc[1], message), acc[2]>>
                 ELSE acc)

\* the loop "for item in funding_rates": acc is <<level_1_messages, level_2_messages>>
RECURSIVE LevelMessages(_, _, _, _)
LevelMessages(items, t1, t2, acc) ==
    IF items = <<>> THEN acc
    ELSE LET max_rate == MaxRate(Head(items).rates.rate)
             message == format_ticker_message(Head(items).ticker, Head(items).rates, max_rate)
         IN  LevelMessages(Tail(items), t1, t2,
                 IF max_rate >= t2
                 THEN <<Append(acc[1], message), Append(acc[2], message)>>
                 ELSE IF max_rate >= t1
                 THEN <<Append(acc[1], message), acc[2]>>
                 ELSE acc)

\* create_alerts_by_level(): reads the tickers at or above the tier-1 threshold
create_alerts_by_level(table, t1, t2) ==
    LET items == get_latest_funding_rates(table, t1)
    IN  IF items = <<>> THEN << <<>>, <<>> >>
        ELSE LevelMessages(items, t1, t2, << <<>>, <<>> >>)

(***************************************************************************)
(* Bounded inputs of the Rate Store                                        *)
(***************************************************************************)
\* symbols of one pass: at most this many across all exchanges
MaxEntries == 2
\* the store is followed for this many days
MaxDays == 1
\* days_to_keep of a cleanup: 0 .. MaxKeepDays
MaxKeepDays == 1

\* funding_info values an exchange may report: rate in 1/100 percent,
\* settlement in epoch milliseconds, cycle in hours
FundingInfos(exchange) ==
    CASE exchange = "Binance" ->
             { [rate |-> 0 - 130, nextSettleTime |-> 8 * 60 * 60 * 1000, collectCycle |-> 8],
               [rate |-> 250, nextSettleTime |-> 4 * 60 * 60 * 1000, collectCycle |-> 4] }
      [] exchange = "Bybit" ->
             { [rate |-> 150, nextSettleTime |-> 8 * 60 * 60 * 1000, collectCycle |-> 8] }
      [] exchange = "OKX" ->
             { [rate |-> 50, nextSettleTime |-> 4 * 60 * 60 * 1000, collectCycle |-> 8] }
      [] exchange = "Bitget" ->
             { [rate |-> 50, nextSettleTime |-> 8 * 60 * 60 * 1000, collectCycle |-> 8] }
      [] exchange = "MEXC" ->
             { [rate |-> 0 - 250, nextSettleTime |-> 4 * 60 * 60 * 1000, collectCycle |-> 1] }

\* the dicts one exchange can contribute: its symbols in any completion order
ExchangeResults(exchange) ==
    LET pool == SymbolPool(exchange)
        lens == {n \in 0 .. MaxEntries : n <= Cardinality(pool)}
        orders == UNION { {p \in [1 .. n -> pool] :
                              \A i, j \in 1 .. n : i # j => p[i] # p[j]} : n \in lens }
    IN  UNION { { [i \in 1 .. Len(p) |-> <<p[i], f[i]>>] :
                      f \in [1 .. Len(p) -> FundingInfos(exchange)] } : p \in orders }

EntryCount(funding_data) ==
    Len(funding_data["Binance"]) + Len(funding_data["Bybit"]) + Len(funding_data["OKX"])
    + Len(funding_data["Bitget"]) + Len(funding_data["MEXC"])

\* all_funding_data of a pass: one dict per exchange
AllInputs ==
    { fd \in { [e \in ExchangeSet |->
                   CASE e = "Binance" -> a [] e = "Bybit" -> b [] e = "OKX" -> c
                     [] e = "Bitget" -> d [] e = "MEXC" -> m] :
               a \in ExchangeResults("Binance"), b \in ExchangeResults("Bybit"),
               c \in ExchangeResults("OKX"), d \in ExchangeResults("Bitget"),
               m \in ExchangeResults("MEXC") } :
      EntryCount(fd) <= MaxEntries }

\* configured (tier 1, tier 2) thresholds: the defaults 1.0 and 2.0, an equal
\* pair, and a pair with tier 2 below tier 1
ThresholdPairs == {<<100, 200>>, <<150, 150>>, <<200, 100>>}

Day == 24 * 60 * 60

(***************************************************************************)
(* Calls of the Rate Store and of the alert composer                       *)
(***************************************************************************)
NoCall == [op |-> "none"]

StoreStart ==
    /\ funding_rates = {}
    /\ db_now = 0
    /\ db_call = NoCall

\* db.save_funding_rates(funding_data)
SaveFundingRates ==
    /\ db_call = NoCall
    /\ \E fd \in AllInputs :
          /\ funding_rates' = save_funding_rates(funding_rates, fd, db_now)
          /\ db_call' = [op |-> "save", arg |-> fd, before |-> funding_rates]
    /\ UNCHANGED <<db_now, FUNDING_THRESHOLD_LEVEL_1, FUNDING_THRESHOLD_LEVEL_2>>
    /\ UNCHANGED nonStoreVars

\* db.save_funding_rates(funding_data) called a second time with the input of
\* the call that has just returned, at once or a day later
SaveFundingRatesAgain ==
    /\ db_call.op = "save"
    /\ \E dt \in {0, Day} :
          /\ db_now + dt <= MaxDays * Day
          /\ db_now' = db_now + dt
          /\ funding_rates' = save_funding_rates(funding_rates, db_call.arg, db_now + dt)
    /\ db_call' = [op |-> "save_again", arg |-> db_call.arg, before |-> funding_rates]
    /\ UNCHANGED <<FUNDING_THRESHOLD_LEVEL_1, FUNDING_THRESHOLD_LEVEL_2>>
    /\ UNCHANGED nonStoreVars

\* db.get_latest_funding_rates(threshold): the default 0.0, the 0.1 of
\* view_database, and the tier-1 threshold of create_alerts_by_level
GetLatestFundingRates ==
    /\ db_call = NoCall
    /\ \E th \in {0, 10, FUNDING_THRESHOLD_LEVEL_1} :
          db_call' = [op |-> "get", arg |-> th,
                      result |-> get_latest_funding_rates(funding_rates, th)]
    /\ UNCHANGED <<funding_rates, db_now,
                   FUNDING_THRESHOLD_LEVEL_1, FUNDING_THRESHOLD_LEVEL_2>>
    /\ UNCHANGED nonStoreVars

\* db.cleanup_old_data(days_to_keep): returns cursor.rowcount
CleanupOldData ==
    /\ db_call = NoCall
    /\ \E days \in 0 .. MaxKeepDays :
          /\ funding_rates' = cleanup_old_data(funding_rates, db_now, days)
          /\ db_call' = [op |-> "cleanup", arg |-> days, before |-> funding_rates,
                         result |-> Cardinality(funding_rates)
                                    - Cardinality(cleanup_old_data(funding_rates, db_now, days))]
    /\ UNCHANGED <<db_now, FUNDING_THRESHOLD_LEVEL_1, FUNDING_THRESHOLD_LEVEL_2>>
    /\ UNCHANGED nonStoreVars

\* create_alerts_by_level()
CreateAlertsByLevel ==
    /\ db_call = NoCall
    /\ db_call' = [op |-> "alerts",
                   result |-> create_alerts_by_level(funding_rates,
                                  FUNDING_THRESHOLD_LEVEL_1, FUNDING_THRESHOLD_LEVEL_2)]
    /\ UNCHANGED <<funding_rates, db_now,
                   FUNDING_THRESHOLD_LEVEL_1, FUNDING_THRESHOLD_LEVEL_2>>
    /\ UNCHANGED nonStoreVars

\* the call returns to its caller
ReturnFromCall ==
    /\ db_call # NoCall
    /\ db_call' = NoCall
    /\ UNCHANGED <<funding_rates, db_now,
                   FUNDING_THRESHOLD_LEVEL_1, FUNDING_THRESHOLD_LEVEL_2>>
    /\ UNCHANGED nonStoreVars

\* a day passes between two calls
DayPasses ==
    /\ db_call = NoCall
    /\ db_now + Day <= MaxDays * Day
    /\ db_now' = db_now + Day
    /\ UNCHANGED <<funding_rates, db_call,
                   FUNDING_THRESHOLD_LEVEL_1, FUNDING_THRESHOLD_LEVEL_2>>
    /\ UNCHANGED nonStoreVars

NextStore ==
    \/ SaveFundingRates
    \/ SaveFundingRatesAgain
    \/ GetLatestFundingRates
    \/ CleanupOldData
    \/ ReturnFromCall
    \/ DayPasses

\* the alert composer over the tables the collection passes leave
NextAlerts ==
    \/ SaveFundingRates
    \/ CreateAlertsByLevel
    \/ ReturnFromCall

(***************************************************************************)
(* One collection pass: funding_spread_db.py collect_funding_data, with    *)
(* save_funding_rates statement by statement and a reader on another       *)
(* connection (view_database.py)                                           *)
(***************************************************************************)
RECURSIVE SumLen(_, _)
SumLen(funding_data, keys) ==
    IF keys = {} THEN 0
    ELSE LET k == CHOOSE x \in keys : TRUE
         IN  Len(funding_data[k]) + SumLen(funding_data, keys \ {k})

\* entries collected so far in a pass
Collected(funding_data) == SumLen(funding_data, DOMAIN funding_data)

PassIdle ==
    /\ pass_pc = "idle"
    /\ pass_next = 1
    /\ pass_running = {}
    /\ all_funding_data = <<>>
    /\ current_time = 0
    /\ txn = {}
    /\ txn_todo = {}
    /\ pass_before = {}

\* a plausible slip: a connection in autocommit mode, every statement visible at once
WriteVisibleAutocommit(committed, working) == working

\* what other connections see after an INSERT OR REPLACE of the writing
\* connection: the committed table, the statement being part of a transaction
\* that only conn.commit() ends
WriteVisible(committed, working) == committed

\* the tables an earlier pass in which one exchange answered has left
PriorTables ==
    { save_funding_rates({}, [e \in ExchangeSet |-> IF e = x[1] THEN x[2] ELSE <<>>], 0) :
          x \in UNION { {<<e, r>> : r \in ExchangeResults(e)} : e \in ExchangeSet } }

\* cleanup_old_data(self, days_to_keep: int = 7): the default retention window
DaysToKeepDefault == 7

\* collect_funding_data() is entered, a day after the earlier pass or a day
\* past the retention window after it: all_funding_data = {}
PassEntered ==
    /\ funding_rates \in PriorTables
    /\ db_now \in {Day, (DaysToKeepDefault + 1) * Day}
    /\ db_call = NoCall
    /\ pass_pc = "collecting"
    /\ pass_next = 1
    /\ pass_running = {}
    /\ all_funding_data = <<>>
    /\ current_time = 0
    /\ txn = {}
    /\ txn_todo = {}
    /\ pass_before = funding_rates

\* "for exchange, symbols in ex_symbols.items()" with the await in its body:
\* the loop reaches an exchange when the call for the one before has returned
LoopReaches(exchange, next, running) ==
    /\ next <= Len(Exchanges)
    /\ exchange = Exchanges[next]
    /\ running = {}

\* _check_exchange(exchange, symbols) is called and awaited
ExchangeStarts(exchange) ==
    /\ pass_pc = "collecting"
    /\ LoopReaches(exchange, pass_next, pass_running)
    /\ pass_running' = pass_running \cup {exchange}
    /\ UNCHANGED <<pass_pc, pass_next, all_funding_data, current_time, txn, txn_todo,
                   pass_before>>
    /\ UNCHANGED storeVars
    /\ UNCHANGED nonPassVars

\* funding_data = await _check_exchange(exchange, symbols) returns;
\* all_funding_data[exchange] = funding_data
CheckExchange ==
    /\ pass_pc = "collecting"
    /\ \E exchange \in pass_running :
          /\ \E funding_data \in ExchangeResults(exchange) :
                /\ Collected(all_funding_data) + Len(funding_data) <= MaxEntries
                /\ all_funding_data' = (exchange :> funding_data) @@ all_funding_data
          /\ pass_running' = pass_running \ {exchange}
    /\ pass_next' = pass_next + 1
    /\ UNCHANGED <<pass_pc, current_time, txn, txn_todo, pass_before>>
    /\ UNCHANGED storeVars
    /\ UNCHANGED nonPassVars

\* db.save_funding_rates(all_funding_data) is entered after the loop over the
\* exchanges: all_tickers, current_time, the connection
SaveBegin ==
    /\ pass_pc = "collecting"
    /\ pass_next > Len(Exchanges)
    /\ pass_running = {}
    /\ pass_pc' = "saving"
    /\ current_time' = db_now
    /\ txn' = funding_rates
    /\ txn_todo' = AllTickers(all_funding_data)
    /\ UNCHANGED <<pass_next, pass_running, all_funding_data, pass_before>>
    /\ UNCHANGED storeVars
    /\ UNCHANGED nonPassVars

\* one round of "for ticker in all_tickers": the record is built and written
SaveTicker ==
    /\ pass_pc = "saving"
    /\ \E ticker \in txn_todo :
          /\ txn' = InsertOrReplace(txn, BuildRecord(ticker, all_funding_data, current_time))
          /\ txn_todo' = txn_todo \ {ticker}
    /\ funding_rates' = WriteVisible(funding_rates, txn')
    /\ UNCHANGED <<pass_pc, pass_next, pass_running, all_funding_data, current_time,
                   pass_before>>
    /\ UNCHANGED <<db_now, db_call, FUNDING_THRESHOLD_LEVEL_1, FUNDING_THRESHOLD_LEVEL_2>>
    /\ UNCHANGED nonPassVars

\* conn.commit() after the loop; save_funding_rates returns
SaveCommit ==
    /\ pass_pc = "saving"
    /\ txn_todo = {}
    /\ funding_rates' = txn
    /\ pass_pc' = "stats"
    /\ UNCHANGED <<pass_next, pass_running, all_funding_data, current_time, txn, txn_todo,
                   pass_before>>
    /\ UNCHANGED <<db_now, db_call, FUNDING_THRESHOLD_LEVEL_1, FUNDING_THRESHOLD_LEVEL_2>>
    /\ UNCHANGED nonPassVars

\* get_database_stats() and the closing log lines; collect_funding_data returns
PassEnd ==
    /\ pass_pc = "stats"
    /\ pass_pc' = "idle"
    /\ UNCHANGED <<pass_next, pass_running, all_funding_data, current_time, txn, txn_todo,
                   pass_before>>
    /\ UNCHANGED storeVars
    /\ UNCHANGED nonPassVars

\* another process reads at any moment: db.get_latest_funding_rates(threshold=0.1)
\* of view_database.py; "phase" records where the pass was when the read happened
ConcurrentRead ==
    /\ db_call = NoCall
    /\ db_call' = [op |-> "read", arg |-> 10,
                   result |-> get_latest_funding_rates(funding_rates, 10),
                   phase |-> pass_pc]
    /\ UNCHANGED <<funding_rates, db_now,
                   FUNDING_THRESHOLD_LEVEL_1, FUNDING_THRESHOLD_LEVEL_2>>
    /\ UNCHANGED nonStoreVars

NextPass ==
    \/ \E exchange \in ExchangeSet : ExchangeStarts(exchange)
    \/ CheckExchange
    \/ SaveBegin
    \/ SaveTicker
    \/ SaveCommit
    \/ PassEnd
    \/ ConcurrentRead
    \/ ReturnFromCall

(***************************************************************************)
(* Dispatcher: funding_spread_db.py send_telegram                          *)
(***************************************************************************)
TELEGRAM_MAX_RETRIES == 3

Digits == <<"0", "1", "2", "3", "4", "5", "6", "7", "8", "9">>

IsDigits(s) == s # <<>> /\ \A i \in 1 .. Len(s) : \E d \in 1 .. 10 : Digits[d] = s[i]

RECURSIVE DigitsValue(_)
DigitsValue(s) ==
    IF s = <<>> THEN 0
    ELSE 10 * DigitsValue(SubSeq(s, 1, Len(s) - 1))
         + ((CHOOSE d \in 1 .. 10 : Digits[d] = s[Len(s)]) - 1)

\* float(s) on the header values of this model: the number of a string of
\* decimal digits, None where float raises ValueError
ParseFloat(s) == IF IsDigits(s) THEN Some(DigitsValue(s)) ELSE None

\* int(s): decimal digits with an optional sign, None where int raises ValueError
ParseInt(s) ==
    IF IsDigits(s) THEN Some(DigitsValue(s))
    ELSE IF s # <<>> /\ Head(s) = "-" /\ IsDigits(Tail(s)) THEN Some(0 - DigitsValue(Tail(s)))
    ELSE IF s # <<>> /\ Head(s) = "+" /\ IsDigits(Tail(s)) THEN Some(DigitsValue(Tail(s)))
    ELSE None

Min(a, b) == IF a <= b THEN a ELSE b

\* the configured values of a destination: missing, a chat, a chat with a
\* topic, a chat with a suffix that is no integer, a chat with two separators
NoText == <<>>
Tokens == {NoText, <<"T">>}
ChatIds == {NoText, <<"-", "1", "0", "0">>, <<"-", "1", "0", "0", "_", "7">>,
            <<"-", "1", "0", "0", "_", "X">>, <<"@", "a", "_", "b", "_", "7">>}

NoPayload == [chat_id |-> NoText, message_thread_id |-> None]

\* a plausible slip: the chat id goes into the payload as configured
BuildPayloadWhole(chat) == [chat_id |-> chat, message_thread_id |-> None]

\* base_chat_id and topic_id parsed from "chat_id_topic_id", then the payload
\* (its text field is the message, passed through)
BuildPayload(chat) ==
    LET parts == Split(chat, "_")
    IN  IF Contains(chat, <<"_">>) /\ Len(parts) = 2
        THEN [chat_id |-> parts[1], message_thread_id |-> ParseInt(parts[2])]
        ELSE [chat_id |-> chat, message_thread_id |-> None]

\* the Retry-After header of a response: absent, seconds, an HTTP date
RetryAfterHeaders == {None, Some(<<"2">>), Some(<<"W", "E", "D">>)}

\* what one delivery request can end with.  status 0: the request raised before
\* a response arrived; body_ok FALSE: reading the body (resp.text()) raised
Outcomes ==
    {[status |-> 0, retry_after |-> None, body_ok |-> FALSE]}
    \cup {[status |-> 200, retry_after |-> None, body_ok |-> TRUE]}
    \cup [status : {429, 400}, retry_after : RetryAfterHeaders, body_ok : BOOLEAN]
    \cup [status : {500}, retry_after : {None}, body_ok : BOOLEAN]

\* a plausible slip: no status counts as delivered
StatusOKNever(status) == FALSE

\* resp.status == 200
StatusOK(status) == status = 200

\* resp.status in (429, 400)
StatusRetry(status) == status \in {429, 400}

\* the except branch: log the error, sleep 1.0 * attempt
Except(k) == [next |-> "sleep", wait |-> 1 * k, log |-> "error"]

\* a plausible slip: the attempt number is left out of the backoff
BackoffFlat(k) == Min(3, 10)

\* the wait without a hint: min(3.0 * attempt, 10.0)
Backoff(k) == Min(3 * k, 10)

\* the body of the try for one outcome of the request, on attempt k
AttemptResult(o, k) ==
    IF o.status = 0 THEN Except(k)
    ELSE IF StatusOK(o.status) THEN [next |-> "return", wait |-> 0, log |-> "sent"]
    ELSE IF StatusRetry(o.status)
         THEN LET hinted == o.retry_after # None /\ o.retry_after[1] # NoText
              IN  IF hinted /\ ParseFloat(o.retry_after[1]) = None THEN Except(k)
                  ELSE IF ~o.body_ok THEN Except(k)
                  ELSE [next |-> "sleep",
                        wait |-> IF hinted THEN ParseFloat(o.retry_after[1])[1]
                                 ELSE Backoff(k),
                        log |-> "retry"]
    ELSE IF ~o.body_ok THEN Except(k)
    ELSE [next |-> "return", wait |-> 0, log |-> "http_error"]

\* a plausible slip: range(1, TELEGRAM_MAX_RETRIES + 2)
LoopContinuesOneMore(k) == k < TELEGRAM_MAX_RETRIES + 1

\* "for attempt in range(1, TELEGRAM_MAX_RETRIES + 1)" has a next round
LoopContinues(k) == k < TELEGRAM_MAX_RETRIES

\* every return of send_telegram is a bare return, the end of the body included
ReturnValue == "None"

SendIdle ==
    /\ bot_token = NoText
    /\ chat_id = NoText
    /\ send_pc = "idle"
    /\ attempt = 0
    /\ wait_s = 0
    /\ send_log = "none"
    /\ send_ret = "pending"
    /\ payload = NoPayload
    /\ responses = <<>>

\* a plausible slip: only the token is looked at
NotConfiguredTokenOnly(token, chat) == token = NoText

\* "if not bot_token or not chat_id"
NotConfigured(token, chat) == token = NoText \/ chat = NoText

\* send_telegram(text, bot_token, chat_id) is called: the configuration check,
\* then the payload
SendTelegram ==
    /\ send_pc \in {"idle", "done"}
    /\ \E token \in Tokens, chat \in ChatIds :
          /\ bot_token' = token
          /\ chat_id' = chat
          /\ IF NotConfigured(token, chat)
             THEN /\ send_log' = "not_configured"
                  /\ send_pc' = "done"
                  /\ send_ret' = ReturnValue
                  /\ payload' = NoPayload
                  /\ attempt' = 0
             ELSE /\ send_log' = "none"
                  /\ send_pc' = "post"
                  /\ send_ret' = "pending"
                  /\ payload' = BuildPayload(chat)
                  /\ attempt' = 1
    /\ wait_s' = 0
    /\ responses' = <<>>
    /\ UNCHANGED nonSendVars

\* session.post(url, json=payload) and the handling of what it ends with
Post ==
    /\ send_pc = "post"
    /\ \E o \in Outcomes :
          LET r == AttemptResult(o, attempt)
          IN  /\ responses' = Append(responses, o)
              /\ send_log' = r.log
              /\ IF r.next = "return"
                 THEN /\ send_pc' = "done"
                      /\ send_ret' = ReturnValue
                      /\ UNCHANGED wait_s
                 ELSE /\ send_pc' = "wait"
                      /\ wait_s' = r.wait
                      /\ UNCHANGED send_ret
    /\ UNCHANGED <<bot_token, chat_id, attempt, payload>>
    /\ UNCHANGED nonSendVars

\* the asyncio.sleep ends: the next round of the loop, or the end of the
\* loop with the log line that the attempts are exhausted
Wait ==
    /\ send_pc = "wait"
    /\ IF LoopContinues(attempt)
       THEN /\ attempt' = attempt + 1
            /\ send_pc' = "post"
            /\ UNCHANGED <<send_log, send_ret>>
       ELSE /\ send_log' = "exhausted"
            /\ send_pc' = "done"
            /\ send_ret' = ReturnValue
            /\ UNCHANGED attempt
    /\ UNCHANGED <<bot_token, chat_id, wait_s, payload, responses>>
    /\ UNCHANGED nonSendVars

NextSend ==
    \/ SendTelegram
    \/ Post
    \/ Wait

(***************************************************************************)
(* Collector of one exchange: funding_spread_db.py _check_exchange,        *)
(* _fetch_json, _extract_funding_info                                      *)
(***************************************************************************)
\* longest list of symbols of one exchange
MaxSymbols == 3
\* largest configured concurrency of an exchange
MaxConcurrency == 2

\* the symbols file of an exchange, as far as the model reads it
SymbolList == <<SymBTCUSDT, SymETHUSDT, SymBTCUSD, SymETHMexc, SymSOLUmcbl, SymBTCSwap>>

Workers == 1 .. Len(cx_symbols)

\* the requests in flight: the workers inside _fetch_json
InFlight == {i \in Workers : worker_pc[i] = "fetching"}

CollectIdle ==
    /\ cx_pc = "idle"
    /\ cx_exchange = "Binance"
    /\ cx_symbols = <<>>
    /\ concurrency = 0
    /\ sem = 0
    /\ worker_pc = <<>>
    /\ fetched = <<>>
    /\ cx_funding_data = <<>>

\* _check_exchange(exchange, symbols) is called: no symbols, no work; else the
\* semaphore of EXCHANGE_CONCURRENCY permits and one worker per symbol
CheckExchangeCalled ==
    /\ cx_pc = "idle"
    /\ cx_exchange \in ExchangeSet
    /\ \E n \in 0 .. MaxSymbols : cx_symbols = SubSeq(SymbolList, 1, n)
    /\ concurrency \in 1 .. MaxConcurrency
    /\ sem = concurrency
    /\ worker_pc = [i \in Workers |-> "queued"]
    /\ fetched = [i \in Workers |-> "pending"]
    /\ cx_funding_data = <<>>

\* a plausible slip: the request is issued without waiting for a permit
SemFreeAlways(value) == TRUE

\* asyncio.Semaphore: acquire goes through while the value is positive
SemFree(value) == value > 0

\* "async with sem": the worker gets a permit and issues its request
Acquire(i) ==
    /\ cx_pc = "gather"
    /\ worker_pc[i] = "queued"
    /\ SemFree(sem)
    /\ sem' = sem - 1
    /\ worker_pc' = [worker_pc EXCEPT ![i] = "fetching"]
    /\ UNCHANGED <<cx_pc, cx_exchange, cx_symbols, concurrency, fetched, cx_funding_data>>
    /\ UNCHANGED nonCollectVars

\* a plausible slip: the worker stores whatever came back
StoresAlways(outcome) == TRUE

\* "if funding_info is not None": data was fetched and matched the shape
Stores(outcome) == outcome = "ok"

\* the funding_info of an outcome: _extract_funding_info(exchange, data) if
\* data is not None else None
ExtractedInfos(exchange, outcome) ==
    IF outcome = "ok" THEN {Some(f) : f \in FundingInfos(exchange)} ELSE {None}

\* the request of worker i ends: the fetch failed (_fetch_json logs and
\* returns None), the data is not of the expected shape (_extract_funding_info
\* returns None), or the funding_info is stored and logged.  log_ok FALSE:
\* the print of the log line raises, and the worker with it, out of
\* "async with sem"
FetchReturns(i) ==
    /\ cx_pc = "gather"
    /\ worker_pc[i] = "fetching"
    /\ \E outcome \in {"ok", "malformed", "failed"}, log_ok \in BOOLEAN :
          /\ fetched' = [fetched EXCEPT ![i] = outcome]
          /\ \E funding_info \in ExtractedInfos(cx_exchange, outcome) :
                cx_funding_data' =
                    IF Stores(outcome)
                    THEN Append(cx_funding_data, <<cx_symbols[i], funding_info>>)
                    ELSE cx_funding_data
          /\ IF log_ok
             THEN worker_pc' = [worker_pc EXCEPT ![i] = "sleeping"] /\ UNCHANGED sem
             ELSE worker_pc' = [worker_pc EXCEPT ![i] = "raised"] /\ sem' = sem + 1
    /\ UNCHANGED <<cx_pc, cx_exchange, cx_symbols, concurrency>>
    /\ UNCHANGED nonCollectVars

\* asyncio.sleep(PER_REQUEST_DELAY) ends and the worker leaves "async with sem"
DelayEnds(i) ==
    /\ cx_pc = "gather"
    /\ worker_pc[i] = "sleeping"
    /\ sem' = sem + 1
    /\ worker_pc' = [worker_pc EXCEPT ![i] = "done"]
    /\ UNCHANGED <<cx_pc, cx_exchange, cx_symbols, concurrency, fetched, cx_funding_data>>
    /\ UNCHANGED nonCollectVars

\* "if not symbols: return funding_data", else the session and the gather
EnterGather ==
    /\ cx_pc = "idle"
    /\ cx_pc' = IF cx_symbols = <<>> THEN "returned" ELSE "gather"
    /\ UNCHANGED <<cx_exchange, cx_symbols, concurrency, sem, worker_pc, fetched,
                   cx_funding_data>>
    /\ UNCHANGED nonCollectVars

\* asyncio.gather(..., return_exceptions=True) has every worker's result or
\* exception: return funding_data
GatherReturns ==
    /\ cx_pc = "gather"
    /\ \A i \in Workers : worker_pc[i] \in {"done", "raised"}
    /\ cx_pc' = "returned"
    /\ UNCHANGED <<cx_exchange, cx_symbols, concurrency, sem, worker_pc, fetched,
                   cx_funding_data>>
    /\ UNCHANGED nonCollectVars

NextCollect ==
    \/ EnterGather
    \/ \E i \in Workers : Acquire(i)
    \/ \E i \in Workers : FetchReturns(i)
    \/ \E i \in Workers : DelayEnds(i)
    \/ GatherReturns


(***************************************************************************)
(* Calls of the normalizer: funding_database.py normalize_symbol and       *)
(* extract_ticker on the spellings of a market and on canonical pairs      *)
(***************************************************************************)
\* longest base asset
MaxBaseLen == 3

\* the letters of base assets: those of the quote tokens and one more
BaseAlphabet == {"B", "U", "S", "D", "T"}

\* base assets: no quote token, dash, underscore or slash
Bases ==
    { b \in UNION { [1 .. n -> BaseAlphabet] : n \in 1 .. MaxBaseLen } :
          ~ Contains(b, USD) }

\* how each exchange spells the USDT market of a base asset
Spelling(base, exchange) ==
    CASE exchange = "Binance" -> base \o USDT
      [] exchange = "Bybit"   -> base \o USDT
      [] exchange = "OKX"     -> base \o <<"-">> \o USDT \o <<"-", "S", "W", "A", "P">>
      [] exchange = "MEXC"    -> base \o <<"_">> \o USDT
      [] exchange = "Bitget"  -> base \o USDT \o <<"_", "U", "M", "C", "B", "L">>

\* most tokens in a symbol string taken at large
MaxTokens == 3

\* what symbol strings are made of: a letter, the quote tokens, the
\* separators and the exchange suffixes
SymbolTokens ==
    { <<"B">>, USDT, USD, <<"/">>, <<"-">>, <<"_">>,
      <<"-", "S", "W", "A", "P">>, <<"_", "U", "M", "C", "B", "L">> }

RECURSIVE JoinTokens(_)
JoinTokens(tokens) ==
    IF tokens = <<>> THEN <<>> ELSE Head(tokens) \o JoinTokens(Tail(tokens))

\* symbol strings at large: every string of at most MaxTokens tokens
AnySymbols ==
    { JoinTokens(ts) : ts \in UNION { [1 .. n -> SymbolTokens] : n \in 0 .. MaxTokens } }

\* the canonical pairs of a base asset
CanonicalPairs(base) == {base \o <<"/">> \o USDT, base \o <<"/">> \o USD}

NormIdle ==
    /\ nz_pc = "input"
    /\ nz_base = <<>>
    /\ nz_kind = "none"
    /\ nz_symbol = <<>>
    /\ nz_exchange = "Binance"
    /\ nz_normalized = None
    /\ nz_again = None
    /\ nz_ticker = None

\* the arguments of a call of normalize_symbol
NormInput ==
    /\ nz_pc = "input"
    /\ nz_kind \in {"spelling", "canonical", "any"}
    /\ nz_base \in IF nz_kind = "any" THEN {<<>>} ELSE Bases
    /\ nz_exchange \in ExchangeSet
    /\ nz_symbol \in CASE nz_kind = "spelling" -> {Spelling(nz_base, nz_exchange)}
                       [] nz_kind = "canonical" -> CanonicalPairs(nz_base)
                       [] nz_kind = "any" -> AnySymbols
    /\ nz_normalized = None
    /\ nz_again = None
    /\ nz_ticker = None

\* normalize_symbol(symbol, exchange)
NormalizeSymbol ==
    /\ nz_pc = "input"
    /\ nz_normalized' = Some(normalize_symbol(nz_symbol, nz_exchange))
    /\ nz_pc' = "normalized"
    /\ UNCHANGED <<nz_base, nz_kind, nz_symbol, nz_exchange, nz_again, nz_ticker>>
    /\ UNCHANGED nonNormVars

\* normalize_symbol(normalized_symbol, exchange): the result normalized again
NormalizeAgain ==
    /\ nz_pc = "normalized"
    /\ nz_again = None
    /\ nz_again' = Some(normalize_symbol(nz_normalized[1], nz_exchange))
    /\ UNCHANGED <<nz_pc, nz_base, nz_kind, nz_symbol, nz_exchange, nz_normalized, nz_ticker>>
    /\ UNCHANGED nonNormVars

\* extract_ticker(normalized_symbol)
ExtractTicker ==
    /\ nz_pc = "normalized"
    /\ nz_ticker = None
    /\ nz_ticker' = Some(extract_ticker(nz_normalized[1]))
    /\ UNCHANGED <<nz_pc, nz_base, nz_kind, nz_symbol, nz_exchange, nz_normalized, nz_again>>
    /\ UNCHANGED nonNormVars

NextNorm ==
    \/ NormalizeSymbol
    \/ NormalizeAgain
    \/ ExtractTicker


(***************************************************************************)
(* Formatting helpers: funding_spread_db.py format_time_until_payout,      *)
(* message_templates.py MessageTemplateManager.format_template,            *)
(* funding_spread_grouped.py chunk_text.  A formatted string is the        *)
(* sequence of its pieces, a number being the sequence of its digits.      *)
(***************************************************************************)
\* settlement times up to this many minutes ahead
MaxPayoutMinutes == 125

\* seconds from now to the settlement: half-minute steps from six minutes
\* past to MaxPayoutMinutes ahead
PayoutInputs == {30 * k : k \in (0 - 12) .. (2 * MaxPayoutMinutes)}

\* f"{n}" for an int n >= 0
RECURSIVE Decimal(_)
Decimal(n) ==
    IF n < 10 THEN <<Digits[n + 1]>>
    ELSE Decimal(n \div 10) \o <<Digits[(n % 10) + 1]>>

\* int(x / d): the quotient truncated toward zero
TruncDiv(x, d) == IF x >= 0 THEN x \div d ELSE 0 - ((0 - x) \div d)

\* a plausible slip: a settlement due this minute counts as overdue
PayoutOverdueInclusive(total_minutes) == total_minutes <= 0

\* "if total_minutes < 0"
PayoutOverdue(total_minutes) == total_minutes < 0

\* format_time_until_payout(next_settle_time), diff being
\* (settle_time - now).total_seconds()
format_time_until_payout(diff) ==
    LET total_minutes == TruncDiv(diff, 60)
        hours == total_minutes \div 60
        minutes == total_minutes % 60
    IN  IF PayoutOverdue(total_minutes) THEN <<"Payout overdue">>
        ELSE IF total_minutes < 60
        THEN <<"Payout in ">> \o Decimal(total_minutes) \o <<"min">>
        ELSE IF minutes = 0
        THEN <<"Payout in ">> \o Decimal(hours) \o <<"h">>
        ELSE <<"Payout in ">> \o Decimal(hours) \o <<"h ">> \o Decimal(minutes) \o <<"min">>

\* the arguments of a call of format_time_until_payout
PayoutInput ==
    /\ po_pc = "input"
    /\ po_diff \in PayoutInputs
    /\ po_result = None

FormatTimeUntilPayout ==
    /\ po_pc = "input"
    /\ po_result' = Some(format_time_until_payout(po_diff))
    /\ po_pc' = "returned"
    /\ UNCHANGED <<po_diff, tp_pc, tp_template, tp_kwargs, tp_result,
                   ck_pc, ck_lines, max_chars, chunks>>
    /\ UNCHANGED nonFmtVars

NextPayout == FormatTimeUntilPayout

\* ---- format_template ----
\* most pieces of a template
MaxPieces == 2

\* the pieces of a template text: literal text, a replacement field with a
\* name, a replacement field without one
TemplatePieces ==
    { [kind |-> "literal", text |-> "%"],
      [kind |-> "named", text |-> "ticker"],
      [kind |-> "named", text |-> "rate"],
      [kind |-> "positional", text |-> ""] }

Templates == UNION { [1 .. n -> TemplatePieces] : n \in 0 .. MaxPieces }

\* the keyword arguments of a call: the names that have a value
KwargSets == SUBSET {"ticker", "rate"}

\* the template string itself
RECURSIVE RawText(_)
RawText(template) ==
    IF template = <<>> THEN <<>>
    ELSE LET p == Head(template)
         IN  (CASE p.kind = "literal" -> <<p.text>>
                [] p.kind = "named" -> <<"{", p.text, "}">>
                [] p.kind = "positional" -> <<"{", "}">>)
             \o RawText(Tail(template))

\* template.format(**kwargs) where every field has a value
RECURSIVE Formatted(_)
Formatted(template) ==
    IF template = <<>> THEN <<>>
    ELSE LET p == Head(template)
         IN  (IF p.kind = "literal" THEN <<p.text>> ELSE <<"value of ", p.text>>)
             \o Formatted(Tail(template))

\* what template.format(**kwargs) raises: the fields are looked up from left
\* to right, a name without a value raises KeyError, a field without a name
\* is a positional index and format has no positional argument: IndexError
RECURSIVE FormatError(_, _)
FormatError(template, kwargs) ==
    IF template = <<>> THEN "none"
    ELSE LET p == Head(template)
         IN  IF p.kind = "named" /\ p.text \notin kwargs THEN "KeyError"
             ELSE IF p.kind = "positional" THEN "IndexError"
             ELSE FormatError(Tail(template), kwargs)

\* "except KeyError as e"
Caught(error) == error = "KeyError"

TemplateInput ==
    /\ tp_pc = "input"
    /\ tp_template \in Templates
    /\ tp_kwargs \in KwargSets
    /\ tp_result = None

\* format_template(template_name, **kwargs)
FormatTemplate ==
    /\ tp_pc = "input"
    /\ LET error == FormatError(tp_template, tp_kwargs)
       IN  IF error = "none"
           THEN tp_result' = Some(Formatted(tp_template)) /\ tp_pc' = "returned"
           ELSE IF Caught(error)
           THEN tp_result' = Some(RawText(tp_template)) /\ tp_pc' = "returned"
           ELSE tp_result' = None /\ tp_pc' = "raised"
    /\ UNCHANGED <<tp_template, tp_kwargs, po_pc, po_diff, po_result,
                   ck_pc, ck_lines, max_chars, chunks>>
    /\ UNCHANGED nonFmtVars

NextTemplate == FormatTemplate

\* ---- chunk_text ----
\* most lines of a call
MaxLines == 3
\* longest line
MaxLineLen == 3
\* largest character budget
MaxChars == 4

\* a line of n characters
Line(n) == [i \in 1 .. n |-> "x"]

LineLists == UNION { [1 .. k -> {Line(n) : n \in 0 .. MaxLineLen}] : k \in 0 .. MaxLines }

\* "\n".join(buf)
RECURSIVE Join(_)
Join(buf) ==
    IF buf = <<>> THEN <<>>
    ELSE IF Len(buf) = 1 THEN buf[1]
    ELSE buf[1] \o <<"\n">> \o Join(Tail(buf))

\* the for loop of chunk_text and the flush of the last buffer
RECURSIVE ChunkLoop(_, _, _, _, _)
ChunkLoop(lines, budget, done, buf, cur_len) ==
    IF lines = <<>>
    THEN IF buf # <<>> THEN Append(done, Join(buf)) ELSE done
    ELSE LET line == Head(lines)
             add_len == Len(line) + 1
         IN  IF cur_len + add_len > budget /\ buf # <<>>
             THEN ChunkLoop(Tail(lines), budget, Append(done, Join(buf)), <<line>>, add_len)
             ELSE ChunkLoop(Tail(lines), budget, done, Append(buf, line), cur_len + add_len)

\* chunk_text(lines, max_chars)
chunk_text(lines, budget) == ChunkLoop(lines, budget, <<>>, <<>>, 0)

ChunkInput ==
    /\ ck_pc = "input"
    /\ ck_lines \in LineLists
    /\ max_chars \in 1 .. MaxChars
    /\ chunks = <<>>

ChunkText ==
    /\ ck_pc = "input"
    /\ chunks' = chunk_text(ck_lines, max_chars)
    /\ ck_pc' = "returned"
    /\ UNCHANGED <<ck_lines, max_chars, po_pc, po_diff, po_result,
                   tp_pc, tp_template, tp_kwargs, tp_result>>
    /\ UNCHANGED nonFmtVars

NextChunk == ChunkText

PayoutIdle == po_pc = "idle" /\ po_diff = 0 /\ po_result = None
TemplateIdle == tp_pc = "idle" /\ tp_template = <<>> /\ tp_kwargs = {} /\ tp_result = None
ChunkIdle == ck_pc = "idle" /\ ck_lines = <<>> /\ max_chars = 0 /\ chunks = <<>>

FmtIdle == PayoutIdle /\ TemplateIdle /\ ChunkIdle

(***************************************************************************)
(* Dispatch batch: funding_spread_db.py flush_alerts_from_database         *)
(***************************************************************************)
\* most messages of level 1 in one batch
MaxMessages == 2
\* longest duration of one send_telegram call, in seconds
MaxSendTime == 1

\* TELEGRAM_CHUNK_DELAY = float(os.getenv("TELEGRAM_CHUNK_DELAY", "1.0"))
TELEGRAM_CHUNK_DELAY == 1

\* the lists create_alerts_by_level can return: the messages of level 1 in
\* order, and those of them that are of level 2 as well, in the same order
LevelLists ==
    UNION { { <<[i \in 1 .. n |-> i],
                SelectSeq([i \in 1 .. n |-> i], LAMBDA m : m \in S)>> :
              S \in SUBSET (1 .. n) } : n \in 0 .. MaxMessages }

FlushIdle ==
    /\ fl_pc = "idle"
    /\ level_1_messages = <<>>
    /\ level_2_messages = <<>>
    /\ fl_index = 0
    /\ fl_sleeping = FALSE
    /\ fl_now = 0
    /\ fl_sent = <<>>

\* "level_1_messages, level_2_messages = create_alerts_by_level()"
FlushInput ==
    /\ fl_pc = "input"
    /\ \E lists \in LevelLists :
          level_1_messages = lists[1] /\ level_2_messages = lists[2]
    /\ fl_index = 0
    /\ fl_sleeping = FALSE
    /\ fl_now = 0
    /\ fl_sent = <<>>

\* "if not level_1_messages and not level_2_messages: log; return", else the
\* first block whose list is not empty
FlushBegins ==
    /\ fl_pc = "input"
    /\ fl_pc' = IF level_1_messages # <<>> THEN "header1"
                ELSE IF level_2_messages # <<>> THEN "header2"
                ELSE "returned"
    /\ UNCHANGED <<level_1_messages, level_2_messages, fl_index, fl_sleeping, fl_now,
                   fl_sent>>
    /\ UNCHANGED nonFlushVars

\* what is sent at a position of the batch, and through which bot
FlushItem(pc, index) ==
    CASE pc = "header1" -> [level |-> 1, text |-> "header"]
      [] pc = "level1"  -> [level |-> 1, text |-> level_1_messages[index]]
      [] pc = "header2" -> [level |-> 2, text |-> "header"]
      [] pc = "level2"  -> [level |-> 2, text |-> level_2_messages[index]]

\* "await send_telegram_level_N(...)": the call takes d seconds, retries included
FlushSend ==
    /\ fl_pc \in {"header1", "level1", "header2", "level2"}
    /\ ~ fl_sleeping
    /\ \E d \in {0, MaxSendTime} :
          /\ fl_sent' = Append(fl_sent, [item |-> FlushItem(fl_pc, fl_index),
                                         start |-> fl_now, end |-> fl_now + d])
          /\ fl_now' = fl_now + d
    /\ fl_sleeping' = TRUE
    /\ UNCHANGED <<fl_pc, level_1_messages, level_2_messages, fl_index>>
    /\ UNCHANGED nonFlushVars

\* a plausible slip: no pause after a header
ChunkDelayMessagesOnly(pc) ==
    IF pc \in {"level1", "level2"} THEN TELEGRAM_CHUNK_DELAY ELSE 0

\* "await asyncio.sleep(TELEGRAM_CHUNK_DELAY)" after the send at a position
ChunkDelay(pc) == TELEGRAM_CHUNK_DELAY

\* the statement after the sleep at a position: the for loop of the level,
\* its next round, the block of level 2, or the end of the function
AfterSleep(pc, index) ==
    CASE pc = "header1" -> [pc |-> "level1", index |-> 1]
      [] pc = "level1"  ->
            IF index < Len(level_1_messages) THEN [pc |-> "level1", index |-> index + 1]
            ELSE IF level_2_messages # <<>> THEN [pc |-> "header2", index |-> 0]
            ELSE [pc |-> "returned", index |-> 0]
      [] pc = "header2" -> [pc |-> "level2", index |-> 1]
      [] pc = "level2"  ->
            IF index < Len(level_2_messages) THEN [pc |-> "level2", index |-> index + 1]
            ELSE [pc |-> "returned", index |-> 0]

\* the sleep that follows a send ends
FlushSleepEnds ==
    /\ fl_sleeping
    /\ fl_now' = fl_now + ChunkDelay(fl_pc)
    /\ fl_sleeping' = FALSE
    /\ fl_pc' = AfterSleep(fl_pc, fl_index).pc
    /\ fl_index' = AfterSleep(fl_pc, fl_index).index
    /\ UNCHANGED <<level_1_messages, level_2_messages, fl_sent>>
    /\ UNCHANGED nonFlushVars

NextFlush ==
    \/ FlushBegins
    \/ FlushSend
    \/ FlushSleepEnds

(***************************************************************************)
(* Response parsing: funding_spread_db.py _extract_funding_info.  A parsed *)
(* response is kept as: whether it has the shape the exchange's branch     *)
(* tests for, and the fields of its first item, "time" being fundingTime   *)
(* (Binance), fundingRateTimestamp (Bybit), nextFundingTime (OKX) or       *)
(* nextSettleTime (MEXC), None where the key is missing.                   *)
(***************************************************************************)
\* timestamps of the model: whole hours up to this many
MaxHours == 2

HourMs == 60 * 60 * 1000

\* "8 * 60 * 60 * 1000": 8 hours in milliseconds
CycleMs == 8 * 60 * 60 * 1000

TimeStamps == {k * HourMs : k \in 0 .. MaxHours}

\* fundingRate of a response in 1/10000, which is the rate in 1/100 percent
\* after "float(item["fundingRate"]) * 100.0"
Responses ==
    [ ok    : BOOLEAN,
      rate  : {0 - 130, 50},
      time  : {None} \cup {Some(t) : t \in TimeStamps},
      cycle : {None, Some(4), Some(8)} ]

\* the branch of Bitget: "current_time = int(time.time() * 1000)"
FromClock(exchange) == exchange = "Bitget"

\* "next_funding_time = current_funding_time + (8 * 60 * 60 * 1000)"
Synthesized(current_funding_time) == current_funding_time + CycleMs

\* _extract_funding_info(exchange, data), now being time.time() * 1000; a
\* missing key raises KeyError, which "except Exception" turns into None
extract_funding_info(exchange, data, now) ==
    IF ~ data.ok THEN None
    ELSE IF FromClock(exchange)
    THEN Some([rate |-> data.rate, nextSettleTime |-> Synthesized(now), collectCycle |-> 8])
    ELSE IF data.time = None THEN None
    ELSE IF exchange \in {"Binance", "Bybit"}
    THEN Some([rate |-> data.rate, nextSettleTime |-> Synthesized(data.time[1]),
               collectCycle |-> 8])
    ELSE IF exchange = "OKX"
    THEN Some([rate |-> data.rate, nextSettleTime |-> data.time[1], collectCycle |-> 8])
    ELSE IF data.cycle = None THEN None
    ELSE Some([rate |-> data.rate, nextSettleTime |-> data.time[1],
               collectCycle |-> data.cycle[1]])

ExtractIdle ==
    /\ xi_pc = "idle"
    /\ xi_exchange = "Binance"
    /\ xi_data = [ok |-> FALSE, rate |-> 50, time |-> None, cycle |-> None]
    /\ xi_time = 0
    /\ xi_result = None

\* the arguments of a call of _extract_funding_info and the clock it may read
ExtractInput ==
    /\ xi_pc = "input"
    /\ xi_exchange \in ExchangeSet
    /\ xi_data \in Responses
    /\ xi_time \in TimeStamps
    /\ xi_result = None

ExtractFundingInfo ==
    /\ xi_pc = "input"
    /\ xi_result' = extract_funding_info(xi_exchange, xi_data, xi_time)
    /\ xi_pc' = "returned"
    /\ UNCHANGED <<xi_exchange, xi_data, xi_time>>
    /\ UNCHANGED nonExtractVars

NextExtract == ExtractFundingInfo

\* the dispatch batch and the response parser at rest
RestIdle == FlushIdle /\ ExtractIdle

(***************************************************************************)
(* Symbol cache: funding_spread_cached.py load_symbols_from_file,          *)
(* save_symbols_to_file and the *_get_symbols refresh of one exchange      *)
(* (the five functions differ in the URL and the field names only)         *)
(***************************************************************************)
\* longest symbol list of an exchange
MaxListed == 2

\* the symbols an exchange may list
SymbolNames == {"AUSDT", "BUSDT", "CUSDT"}

\* symbol lists: no symbol twice
SymbolLists ==
    UNION { {l \in [1 .. n -> SymbolNames] : \A i, j \in 1 .. n : i # j => l[i] # l[j]} :
            n \in 0 .. MaxListed }

\* what the request of a refresh ends with: a status other than 200, an
\* exception of session.get, a body resp.json() cannot parse, an item without
\* the key read from it, a body without the list (data.get(..., []) is
\* empty), the list of the exchange
RefreshOutcomes == {"http_error", "transport", "malformed", "missing_key", "missing_list", "ok"}

\* load_symbols_from_file(exchange_name): [] when the file does not exist
load_symbols_from_file(file) == IF file = None THEN <<>> ELSE file[1]

\* save_symbols_to_file(exchange_name, symbols): the file holds the list, or
\* the write failed, which is logged
save_symbols_to_file(file, symbols, write_ok) == IF write_ok THEN Some(symbols) ELSE file

\* new_symbols = [s for s in all_symbols if s not in cached]
NewSymbols(fresh, old) ==
    SelectSeq(fresh, LAMBDA s : \A i \in 1 .. Len(old) : old[i] # s)

\* "if new_symbols: save_symbols_to_file(name, all_symbols)"
CacheAfter(file, fresh, old, write_ok) ==
    IF NewSymbols(fresh, old) # <<>>
    THEN save_symbols_to_file(file, fresh, write_ok)
    ELSE file

CacheIdle ==
    /\ cache_file = None
    /\ sc_pc = "idle"
    /\ cached = <<>>
    /\ sc_outcome = "none"
    /\ all_symbols = <<>>
    /\ sc_ret = None
    /\ sc_before = None

\* *_get_symbols() is called: cached = load_symbols_from_file(name), then the
\* request is issued
GetSymbols ==
    /\ sc_pc = "idle"
    /\ cached' = load_symbols_from_file(cache_file)
    /\ sc_before' = cache_file
    /\ sc_pc' = "get"
    /\ sc_outcome' = "none"
    /\ all_symbols' = <<>>
    /\ sc_ret' = None
    /\ UNCHANGED cache_file
    /\ UNCHANGED nonCacheVars

\* the request ends: a status other than 200 returns cached
HttpError ==
    /\ sc_pc = "get"
    /\ sc_outcome' = "http_error"
    /\ sc_ret' = Some(cached)
    /\ sc_pc' = "returned"
    /\ UNCHANGED <<cache_file, cached, all_symbols, sc_before>>
    /\ UNCHANGED nonCacheVars

\* session.get raises, resp.json() raises, or an item has not the key read
\* from it: no handler in *_get_symbols, the exception goes to the caller
RefreshRaises ==
    /\ sc_pc = "get"
    /\ sc_outcome' \in {"transport", "malformed", "missing_key"}
    /\ sc_pc' = "raised"
    /\ UNCHANGED <<cache_file, cached, all_symbols, sc_ret, sc_before>>
    /\ UNCHANGED nonCacheVars

\* status 200 and a body that parses: all_symbols is built, the cache is
\* written if there is a new symbol, all_symbols is returned
FreshList ==
    /\ sc_pc = "get"
    /\ \E outcome \in {"ok", "missing_list"}, write_ok \in BOOLEAN :
          /\ sc_outcome' = outcome
          /\ all_symbols' \in IF outcome = "ok" THEN SymbolLists ELSE {<<>>}
          /\ cache_file' = CacheAfter(cache_file, all_symbols', cached, write_ok)
    /\ sc_ret' = Some(all_symbols')
    /\ sc_pc' = "returned"
    /\ UNCHANGED <<cached, sc_before>>
    /\ UNCHANGED nonCacheVars

\* the caller goes on; the refresh may be called again
RefreshDone ==
    /\ sc_pc \in {"returned", "raised"}
    /\ sc_pc' = "idle"
    /\ UNCHANGED <<cache_file, cached, sc_outcome, all_symbols, sc_ret, sc_before>>
    /\ UNCHANGED nonCacheVars

NextCache ==
    \/ GetSymbols
    \/ HttpError
    \/ RefreshRaises
    \/ FreshList
    \/ RefreshDone

(***************************************************************************)
(* Specifications                                                          *)
(***************************************************************************)
\* the parts a specification does not run, at rest
SchedIdle ==
    /\ clock = 0
    /\ sched_pc = "tick"
    /\ current_minute = -1
    /\ last_alert_minute = -1
    /\ last_collection_minute = -1
    /\ passes_saved = 0
    /\ collectFiredAt = -1
    /\ alertFiredAt = -1

DefaultThresholds ==
    /\ FUNDING_THRESHOLD_LEVEL_1 = 100
    /\ FUNDING_THRESHOLD_LEVEL_2 = 200

\* the symbol cache, the formatting helpers, the dispatch batch and the
\* response parser at rest
AuxIdle == CacheIdle /\ FmtIdle /\ RestIdle

\* the collector and the normalizer at rest
OthersIdle == CollectIdle /\ NormIdle /\ AuxIdle

InitSched ==
    SchedStart /\ StoreStart /\ DefaultThresholds /\ PassIdle /\ SendIdle /\ OthersIdle

SpecSched == InitSched /\ [][NextSched]_vars

InitStore ==
    /\ StoreStart
    /\ DefaultThresholds
    /\ SchedIdle
    /\ PassIdle
    /\ SendIdle
    /\ OthersIdle

SpecStore == InitStore /\ [][NextStore]_vars

\* the thresholds are read from the environment when the module is loaded
InitAlerts ==
    /\ StoreStart
    /\ \E p \in ThresholdPairs :
          FUNDING_THRESHOLD_LEVEL_1 = p[1] /\ FUNDING_THRESHOLD_LEVEL_2 = p[2]
    /\ SchedIdle
    /\ PassIdle
    /\ SendIdle
    /\ OthersIdle

SpecAlerts == InitAlerts /\ [][NextAlerts]_vars

InitPass == PassEntered /\ DefaultThresholds /\ SchedIdle /\ SendIdle /\ OthersIdle

SpecPass == InitPass /\ [][NextPass]_vars

InitSend ==
    StoreStart /\ DefaultThresholds /\ SchedIdle /\ PassIdle /\ SendIdle /\ OthersIdle

SpecSend == InitSend /\ [][NextSend]_vars

InitNorm ==
    /\ NormInput
    /\ StoreStart /\ DefaultThresholds /\ SchedIdle /\ PassIdle /\ SendIdle /\ CollectIdle
    /\ AuxIdle

SpecNorm == InitNorm /\ [][NextNorm]_vars


InitCollect ==
    /\ CheckExchangeCalled
    /\ StoreStart /\ DefaultThresholds /\ SchedIdle /\ PassIdle /\ SendIdle /\ NormIdle
    /\ AuxIdle

SpecCollect == InitCollect /\ [][NextCollect]_vars


InitCache ==
    /\ CacheIdle
    /\ StoreStart /\ DefaultThresholds /\ SchedIdle /\ PassIdle /\ SendIdle
    /\ CollectIdle /\ NormIdle /\ FmtIdle /\ RestIdle

SpecCache == InitCache /\ [][NextCache]_vars


InitPayout ==
    /\ PayoutInput /\ TemplateIdle /\ ChunkIdle /\ CacheIdle
    /\ StoreStart /\ DefaultThresholds /\ SchedIdle /\ PassIdle /\ SendIdle
    /\ CollectIdle /\ NormIdle /\ RestIdle

SpecPayout == InitPayout /\ [][NextPayout]_vars

InitTemplate ==
    /\ TemplateInput /\ PayoutIdle /\ ChunkIdle /\ CacheIdle
    /\ StoreStart /\ DefaultThresholds /\ SchedIdle /\ PassIdle /\ SendIdle
    /\ CollectIdle /\ NormIdle /\ RestIdle

SpecTemplate == InitTemplate /\ [][NextTemplate]_vars

InitChunk ==
    /\ ChunkInput /\ PayoutIdle /\ TemplateIdle /\ CacheIdle
    /\ StoreStart /\ DefaultThresholds /\ SchedIdle /\ PassIdle /\ SendIdle
    /\ CollectIdle /\ NormIdle /\ RestIdle

SpecChunk == InitChunk /\ [][NextChunk]_vars

InitFlush ==
    /\ FlushInput /\ ExtractIdle
    /\ StoreStart /\ DefaultThresholds /\ SchedIdle /\ PassIdle /\ SendIdle
    /\ CollectIdle /\ NormIdle /\ CacheIdle /\ FmtIdle

SpecFlush == InitFlush /\ [][NextFlush]_vars

InitExtract ==
    /\ ExtractInput /\ FlushIdle
    /\ StoreStart /\ DefaultThresholds /\ SchedIdle /\ PassIdle /\ SendIdle
    /\ CollectIdle /\ NormIdle /\ CacheIdle /\ FmtIdle

SpecExtract == InitExtract /\ [][NextExtract]_vars


\* a request ends (aiohttp's total timeout bounds it) and a sleep ends
FairSpecSend == SpecSend /\ WF_vars(Post) /\ WF_vars(Wait)

C2_CollectionEveryHour ==
    [][ (sched_pc = "tick" /\ should_collect_data(clock))
            => sched_pc' = "collecting" ]_vars

(***************************************************************************)
(* C3: after any sequence of save_funding_rates and cleanup_old_data       *)
(* calls the table holds at most one record per ticker.                    *)
(***************************************************************************)
C3_OneRecordPerTicker ==
    \A r1, r2 \in funding_rates : r1.ticker = r2.ticker => r1 = r2

\* a save has just written a ticker that already had a different record
C3_Witness ==
    /\ db_call.op = "save"
    /\ \E old \in db_call.before, new \in funding_rates :
          old.ticker = new.ticker /\ old # new

(***************************************************************************)
(* C4: after save_funding_rates(input), for every ticker of the input and  *)
(* every exchange, the record's slot of the exchange holds rate,           *)
(* settlement and cycle exactly when the input has a symbol of that        *)
(* exchange normalizing to the ticker, with the values of such a symbol;   *)
(* nothing is carried over from the ticker's prior record.                 *)
(***************************************************************************)
C4_SlotsFromInput ==
    db_call.op = "save" =>
      \A e \in ExchangeSet : \A i \in 1 .. Len(db_call.arg[e]) :
        LET t == SymbolTicker(db_call.arg[e][i][1], e)
        IN  /\ \E r \in funding_rates : r.ticker = t
            /\ \A r \in funding_rates : r.ticker = t =>
                 /\ r.timestamp = db_now
                 /\ \A x \in ExchangeSet :
                      LET items == db_call.arg[x]
                          hits == {j \in 1 .. Len(items) :
                                     SymbolTicker(items[j][1], x) = t}
                          s == ExchangeLower(x)
                      IN  IF hits = {}
                          THEN /\ r.rate[s] = None
                               /\ r.next_settle[s] = None
                               /\ r.cycle[s] = None
                          ELSE \E j \in hits :
                               /\ r.rate[s] = Some(items[j][2].rate)
                               /\ r.next_settle[s] = Some(items[j][2].nextSettleTime)
                               /\ r.cycle[s] = Some(items[j][2].collectCycle)

\* the prior record of a ticker had a slot that this pass did not report
C4_Witness ==
    /\ db_call.op = "save"
    /\ \E old \in db_call.before, new \in funding_rates :
          /\ old.ticker = new.ticker
          /\ \E s \in Slots : old.rate[s] # None /\ new.rate[s] = None
          /\ \E s \in Slots : new.rate[s] # None

(***************************************************************************)
(* Tier membership of a stored row, stated on the row itself               *)
(***************************************************************************)
\* the maximum absolute rate of the row is at least x
MeetsThreshold(row, x) ==
    \E s \in Slots : row.rate[s] # None /\
        (row.rate[s][1] >= x \/ 0 - row.rate[s][1] >= x)

\* the row's ticker has a message in the list
HasMessage(list, row) == \E i \in 1 .. Len(list) : list[i].ticker = row.ticker

(***************************************************************************)
(* C5: a pass writes to the Rate Store only after the collectors of all    *)
(* exchanges have completed, and a read interleaved with the pass sees,    *)
(* for the tickers of the pass, either the records as they were before the *)
(* pass or the records of the pass for every one of them: never a mixture. *)
(***************************************************************************)
\* the items of a result list for one ticker
ItemsFor(list, ticker) == {list[i] : i \in {j \in 1 .. Len(list) : list[j].ticker = ticker}}

C5_AtomicPass ==
    /\ pass_pc = "collecting" => funding_rates = pass_before
    /\ pass_pc = "saving" => DOMAIN all_funding_data = ExchangeSet
    /\ db_call.op = "read" =>
         LET tickers == AllTickers(all_funding_data)
             none == get_latest_funding_rates(pass_before, db_call.arg)
             all  == get_latest_funding_rates(
                         {BuildRecord(t, all_funding_data, current_time) : t \in tickers},
                         db_call.arg)
         IN  \/ \A t \in tickers : ItemsFor(db_call.result, t) = ItemsFor(none, t)
             \/ /\ db_call.phase \in {"stats", "idle"}
                /\ \A t \in tickers : ItemsFor(db_call.result, t) = ItemsFor(all, t)

\* a read in the middle of the writes of a pass that follows an earlier one:
\* one ticker of two written, the other pending, the earlier pass's records
\* still what is read
C5_Witness ==
    /\ pass_pc = "saving"
    /\ db_call.op = "read" /\ db_call.phase = "saving"
    /\ txn_todo # {}
    /\ txn # funding_rates
    /\ Cardinality(AllTickers(all_funding_data)) = 2
    /\ pass_before # {}
    /\ db_call.result = get_latest_funding_rates(funding_rates, db_call.arg)
    /\ db_call.result # get_latest_funding_rates(txn, db_call.arg)

(***************************************************************************)
(* C6: for thresholds T1 <= T2, a stored ticker with maximum absolute rate *)
(* m is in both lists if m >= T2, in the tier-1 list only if T1 <= m < T2, *)
(* and in neither list if m < T1.                                          *)
(***************************************************************************)
C6_TierMembership ==
    (db_call.op = "alerts" /\ FUNDING_THRESHOLD_LEVEL_1 <= FUNDING_THRESHOLD_LEVEL_2) =>
      \A r \in funding_rates :
        LET in1 == HasMessage(db_call.result[1], r)
            in2 == HasMessage(db_call.result[2], r)
        IN  /\ MeetsThreshold(r, FUNDING_THRESHOLD_LEVEL_2) => (in1 /\ in2)
            /\ (MeetsThreshold(r, FUNDING_THRESHOLD_LEVEL_1)
                  /\ ~ MeetsThreshold(r, FUNDING_THRESHOLD_LEVEL_2)) => (in1 /\ ~ in2)
            /\ ~ MeetsThreshold(r, FUNDING_THRESHOLD_LEVEL_1) => (~ in1 /\ ~ in2)

\* under the default thresholds the table holds a ticker of each of the three kinds
C6_Witness ==
    /\ db_call.op = "alerts"
    /\ FUNDING_THRESHOLD_LEVEL_1 < FUNDING_THRESHOLD_LEVEL_2
    /\ \E a, b, c \in funding_rates :
          /\ MeetsThreshold(a, FUNDING_THRESHOLD_LEVEL_2)
          /\ HasMessage(db_call.result[2], a)
          /\ MeetsThreshold(b, FUNDING_THRESHOLD_LEVEL_1)
          /\ ~ MeetsThreshold(b, FUNDING_THRESHOLD_LEVEL_2)
          /\ HasMessage(db_call.result[1], b)
          /\ ~ MeetsThreshold(c, FUNDING_THRESHOLD_LEVEL_1)

TransportFailure(o) == o.status = 0 \/ ~ o.body_ok
Delivered(o) == ~ TransportFailure(o) /\ o.status = 200
Retryable(o) == TransportFailure(o) \/ o.status \in {429, 400}
Terminal(o) == ~ TransportFailure(o) /\ o.status \notin {200, 429, 400}

(***************************************************************************)
(* C8: whatever the responses and transport failures, one send makes at    *)
(* most 3 delivery attempts and then terminates: every attempt but the     *)
(* last ended with 429, 400 or a transport failure; after such an outcome  *)
(* with fewer than 3 attempts made the call goes on to another attempt;    *)
(* the call ends at the first 200, at the first other complete response,   *)
(* or after the third failed attempt, which it logs as exhausted.          *)
(***************************************************************************)
C8_Safety ==
    LET n == Len(responses)
    IN  /\ n <= 3
        /\ \A i \in 1 .. (n - 1) : Retryable(responses[i])
        /\ (n >= 1 /\ n < 3 /\ Retryable(responses[n])) => send_pc \in {"wait", "post"}
        /\ (n >= 1 /\ ~ Retryable(responses[n])) => send_pc = "done"
        /\ (send_pc = "done" /\ n >= 1) =>
              \/ Delivered(responses[n])
              \/ Terminal(responses[n])
              \/ n = 3 /\ Retryable(responses[n]) /\ send_log = "exhausted"
        /\ send_pc = "post" => n = attempt - 1
        /\ send_pc = "wait" => n = attempt

C8_BoundedRetries ==
    /\ [] C8_Safety
    /\ (send_pc \in {"post", "wait"}) ~> (send_pc = "done")

\* three failed attempts of three kinds, then the message is dropped
C8_Witness ==
    /\ send_pc = "done"
    /\ Len(responses) = 3
    /\ responses[1].status = 429
    /\ responses[2].status = 0
    /\ responses[3].status = 400
    /\ send_log = "exhausted"

(***************************************************************************)
(* C9 as claimed: after a 429 with a retry-after hint of 2 seconds and     *)
(* then a 200, exactly two delivery attempts were made and the call        *)
(* reports success to its caller.                                          *)
(***************************************************************************)
HintedThenOK ==
    /\ Len(responses) >= 2
    /\ responses[1] = [status |-> 429, retry_after |-> Some(<<"2">>), body_ok |-> TRUE]
    /\ responses[2].status = 200

C9_ReportsSuccess ==
    HintedThenOK => (Len(responses) = 2 /\ send_pc = "done" /\ send_ret = "success")

(***************************************************************************)
(* C9 amended: after a 429 with a retry-after hint of 2 seconds and then a *)
(* 200, exactly two delivery attempts were made, 2 seconds apart; the call *)
(* has logged the delivery and returned None: its caller is told nothing.  *)
(***************************************************************************)
C9_RetryThenLogged ==
    HintedThenOK =>
        /\ Len(responses) = 2
        /\ send_pc = "done"
        /\ wait_s = 2
        /\ send_log = "sent"
        /\ send_ret = "None"

C9_Witness ==
    /\ HintedThenOK
    /\ send_pc = "done"
    /\ attempt = 2
    /\ payload.message_thread_id = Some(7)

(***************************************************************************)
(* C10: get_latest_funding_rates(threshold) returns exactly the stored     *)
(* tickers whose maximum absolute rate is >= threshold, each once, with    *)
(* the stored values, in ascending ticker order.                           *)
(***************************************************************************)
C10_FilteredInOrder ==
    db_call.op = "get" =>
      LET res == db_call.result
      IN  /\ \A r \in funding_rates :
                MeetsThreshold(r, db_call.arg) <=> HasMessage(res, r)
          /\ \A i \in 1 .. Len(res) :
                \E r \in funding_rates :
                   /\ r.ticker = res[i].ticker
                   /\ res[i].rates.rate = r.rate
                   /\ res[i].rates.next_settle = r.next_settle
                   /\ res[i].rates.cycle = r.cycle
          /\ \A i, j \in 1 .. Len(res) :
                i < j => StrLess(res[i].ticker, res[j].ticker)

\* three tickers stored, one below the threshold, two returned
C10_Witness ==
    /\ db_call.op = "get"
    /\ Cardinality(funding_rates) = 3
    /\ Len(db_call.result) = 2

(***************************************************************************)
(* C11: pruning removes exactly the records dated strictly before the      *)
(* cutoff: a record dated at or after the cutoff is kept, and every kept   *)
(* record is the record it was, in all its fields.                         *)
(***************************************************************************)
C11_PruneExact ==
    db_call.op = "cleanup" =>
        LET cutoff == db_now - db_call.arg * Day
        IN  /\ \A r \in db_call.before : r.timestamp >= cutoff => r \in funding_rates
            /\ \A r \in db_call.before : r.timestamp < cutoff => r \notin funding_rates
            /\ funding_rates \subseteq db_call.before
            /\ db_call.result = Cardinality({r \in db_call.before : r.timestamp < cutoff})

\* a prune that deletes an older record and keeps one dated exactly at the cutoff
C11_Witness ==
    /\ db_call.op = "cleanup"
    /\ \E r \in db_call.before : r.timestamp < db_now - db_call.arg * Day
    /\ \E r \in funding_rates : r.timestamp = db_now - db_call.arg * Day

(***************************************************************************)
(* C12: once a collection pass has saved, the Rate Store holds no record   *)
(* dated before the retention window (7 days by default).                  *)
(***************************************************************************)
C12_PrunedAfterPass ==
    pass_pc \in {"stats", "idle"} =>
        \A r \in funding_rates : r.timestamp >= CutoffTime(db_now, DaysToKeepDefault)

(***************************************************************************)
(* C13: at every moment of the collection of an exchange, the requests in  *)
(* flight are at most the configured concurrency of the exchange, however  *)
(* many symbols there are and in whatever order the requests complete.     *)
(***************************************************************************)
C13_InFlightBounded ==
    /\ Cardinality(InFlight) <= concurrency
    /\ sem >= 0
    /\ sem + Cardinality({i \in Workers : worker_pc[i] \in {"fetching", "sleeping"}})
         = concurrency

\* more symbols than permits: the permits are all taken by requests in flight
\* while a worker is queued
C13_Witness ==
    /\ cx_pc = "gather"
    /\ Len(cx_symbols) > concurrency
    /\ Cardinality(InFlight) = concurrency
    /\ concurrency > 1
    /\ \E i \in Workers : worker_pc[i] = "queued"

(***************************************************************************)
(* The symbols with an entry in the result of the collector                *)
(***************************************************************************)
ResultSymbols == {cx_funding_data[k][1] : k \in 1 .. Len(cx_funding_data)}

(***************************************************************************)
(* C14 as claimed: the result of collecting one exchange has an entry for  *)
(* exactly the symbols fetched with a response of the expected shape; a    *)
(* symbol whose fetch failed, whose response was malformed or whose worker *)
(* raised has none.                                                        *)
(***************************************************************************)
C14_RaisedOmitted ==
    cx_pc = "returned" =>
        /\ ResultSymbols = {cx_symbols[i] : i \in {j \in Workers : fetched[j] = "ok"}}
        /\ \A i \in Workers : worker_pc[i] = "raised" => cx_symbols[i] \notin ResultSymbols

(***************************************************************************)
(* C14 amended: the result has one entry for exactly the symbols fetched   *)
(* with a response of the expected shape, a worker that raised after       *)
(* storing its entry included; a symbol whose fetch failed or whose        *)
(* response was malformed has none, whether or not its worker raised, and  *)
(* no raise of a worker removes the entry of another symbol.               *)
(***************************************************************************)
C14_ExactlyFetched ==
    cx_pc = "returned" =>
        /\ ResultSymbols = {cx_symbols[i] : i \in {j \in Workers : fetched[j] = "ok"}}
        /\ Len(cx_funding_data) = Cardinality(ResultSymbols)
        /\ \A k \in 1 .. Len(cx_funding_data) :
              cx_funding_data[k][2] # None
              /\ cx_funding_data[k][2][1] \in FundingInfos(cx_exchange)
        /\ \A i \in Workers :
              fetched[i] \in {"failed", "malformed"} => cx_symbols[i] \notin ResultSymbols

\* three symbols: one fetched by a worker that raised after storing, one
\* failed with a worker that raised, one malformed
C14_Witness ==
    /\ cx_pc = "returned"
    /\ Len(cx_symbols) = 3
    /\ \E i, j, k \in Workers :
          /\ fetched[i] = "ok" /\ worker_pc[i] = "raised" /\ cx_symbols[i] \in ResultSymbols
          /\ fetched[j] = "failed" /\ worker_pc[j] = "raised"
          /\ fetched[k] = "malformed" /\ worker_pc[k] = "done"

(***************************************************************************)
(* C15: within a pass the exchanges are collected concurrently: as long as *)
(* an exchange has not started, the collection of one of them can start,   *)
(* without waiting for the collections that are running to finish.         *)
(***************************************************************************)
NotStarted == ExchangeSet \ (pass_running \cup DOMAIN all_funding_data)

C15_ExchangesConcurrent ==
    (pass_pc = "collecting" /\ NotStarted # {}) =>
        \E exchange \in NotStarted : ENABLED ExchangeStarts(exchange)

(***************************************************************************)
(* C16: a request that does not complete does not hold up the process:     *)
(* while it hangs, a tick is still evaluated every minute, and every       *)
(* alert-trigger minute that has gone by since the pass began has had its  *)
(* dispatch.                                                               *)
(***************************************************************************)
C16_HangDoesNotBlock ==
    sched_pc = "hung" =>
        /\ current_minute \in {MinuteOfHour(clock),
                               (MinuteOfHour(clock) + 59) % 60}
        /\ \A m \in (collectFiredAt + 1) .. (AbsMinute(clock) - 1) :
              should_send_alert(m % 60) => alertFiredAt >= m

(***************************************************************************)
(* C17: save_funding_rates is idempotent: after a second call with the     *)
(* same input the table has the same tickers as after the first, one       *)
(* record per ticker, and every record has the rate, settlement and cycle  *)
(* values it had after the first call.                                     *)
(***************************************************************************)
Values(table) ==
    {[ticker |-> r.ticker, rate |-> r.rate,
      next_settle |-> r.next_settle, cycle |-> r.cycle] : r \in table}

C17_SaveIdempotent ==
    db_call.op = "save_again" =>
        /\ {r.ticker : r \in funding_rates} = {r.ticker : r \in db_call.before}
        /\ Cardinality(funding_rates) = Cardinality({r.ticker : r \in funding_rates})
        /\ Values(funding_rates) = Values(db_call.before)

\* the second call came a day later and rewrote a record
C17_Witness ==
    /\ db_call.op = "save_again"
    /\ \E r \in db_call.before : r \notin funding_rates
    /\ Cardinality(funding_rates) >= 2

(***************************************************************************)
(* C18: every record written by save_funding_rates has the rate of at      *)
(* least one exchange, and that exchange supplied an entry for the         *)
(* record's ticker in the input: no ticker without data is written.        *)
(***************************************************************************)
Supplied(funding_data, r) ==
    \E e \in DOMAIN funding_data : \E i \in 1 .. Len(funding_data[e]) :
        /\ SymbolTicker(funding_data[e][i][1], e) = r.ticker
        /\ r.rate[ExchangeLower(e)] # None

C18_WrittenHasRate ==
    db_call.op = "save" =>
        \A r \in funding_rates \ db_call.before :
            /\ \E s \in Slots : r.rate[s] # None
            /\ Supplied(db_call.arg, r)

\* a save wrote a record with the rate of one exchange only, next to a record
\* of another ticker
C18_Witness ==
    /\ db_call.op = "save"
    /\ \E r \in funding_rates \ db_call.before :
          /\ Cardinality({s \in Slots : r.rate[s] # None}) = 1
          /\ \E q \in funding_rates : q.ticker # r.ticker

(***************************************************************************)
(* C19: normalization is idempotent on canonical input: for a canonical    *)
(* pair x and an exchange e, normalizing normalize(x, e) again gives       *)
(* normalize(x, e).                                                        *)
(***************************************************************************)
C19_IdempotentOnCanonical ==
    (nz_kind = "canonical" /\ nz_again # None) => nz_again = nz_normalized

(***************************************************************************)
(* C20: the spelling of the USDT market of a base asset B on any exchange  *)
(* normalizes to B/USDT, and the ticker extracted from that is B.          *)
(***************************************************************************)
C20_SpellingsShareTicker ==
    (nz_kind = "spelling" /\ nz_normalized # None) =>
        /\ nz_normalized = Some(nz_base \o <<"/">> \o USDT)
        /\ nz_ticker # None => nz_ticker = Some(nz_base)

\* the OKX spelling of a three-letter base asset, normalized and its ticker
\* extracted
C20_Witness ==
    /\ nz_kind = "spelling"
    /\ nz_exchange = "OKX"
    /\ Len(nz_base) = 3
    /\ nz_symbol = nz_base \o <<"-", "U", "S", "D", "T", "-", "S", "W", "A", "P">>
    /\ nz_normalized # None
    /\ nz_ticker = Some(nz_base)

(***************************************************************************)
(* C21: for every symbol string and exchange, the ticker extracted from    *)
(* the normalized symbol contains no "/".                                  *)
(***************************************************************************)
C21_TickerHasNoSlash ==
    nz_ticker # None => ~ Contains(nz_ticker[1], <<"/">>)

\* a symbol at large whose normalization has two slashes, its ticker extracted
C21_Witness ==
    /\ nz_kind = "any"
    /\ nz_ticker # None
    /\ nz_normalized # None
    /\ Len(Split(nz_normalized[1], "/")) >= 3
    /\ nz_ticker[1] # <<>>

(***************************************************************************)
(* C22: a symbol that has no dash after suffix stripping is split only     *)
(* when it ends with USDT (tried first) or USD, the base being the part    *)
(* before that suffix; otherwise it is returned unchanged.                 *)
(***************************************************************************)
EndsWith(s, p) == Len(p) <= Len(s) /\ SubSeq(s, Len(s) - Len(p) + 1, Len(s)) = p

C22_SplitOnlyOnSuffix ==
    (nz_normalized # None /\ ~ Contains(StripSuffixes(nz_symbol), <<"-">>)) =>
        LET s == StripSuffixes(nz_symbol)
        IN  nz_normalized[1] =
                IF EndsWith(s, USDT)
                THEN SubSeq(s, 1, Len(s) - Len(USDT)) \o <<"/">> \o USDT
                ELSE IF EndsWith(s, USD)
                THEN SubSeq(s, 1, Len(s) - Len(USD)) \o <<"/">> \o USD
                ELSE s

(***************************************************************************)
(* C23: the tick is evaluated once per wall-clock minute: a tick reads     *)
(* the minute of the tick before it or the one that follows, so no minute  *)
(* goes by without a tick, whatever the work inside a tick takes.          *)
(***************************************************************************)
C23_TickEveryMinute ==
    [][ (sched_pc = "tick" /\ sched_pc' # "tick" /\ current_minute # -1)
            => (current_minute' - current_minute) % 60 <= 1 ]_vars

(***************************************************************************)
(* C24: a persistence error during a collection pass is surfaced by log    *)
(* only: no exception of the store leaves the scheduler loop, which keeps  *)
(* running so that later triggers still fire.                              *)
(***************************************************************************)
C24_ErrorLoggedOnly == sched_pc # "raised"

(***************************************************************************)
(* C25: a send to a destination whose token or recipient is empty makes no *)
(* delivery request, logs that the destination is not configured and      *)
(* returns normally, and the next message can be sent.                     *)
(***************************************************************************)
C25_MissingCredentialsDrop ==
    (send_pc # "idle" /\ (bot_token = NoText \/ chat_id = NoText)) =>
        /\ responses = <<>>
        /\ send_pc = "done"
        /\ send_ret = ReturnValue
        /\ send_log = "not_configured"
        /\ payload = NoPayload
        /\ ENABLED SendTelegram

\* a send with a token and no recipient has returned
C25_Witness ==
    /\ send_pc = "done"
    /\ bot_token # NoText
    /\ chat_id = NoText
    /\ send_log = "not_configured"

(***************************************************************************)
(* C26: after every successful fetch of the symbol list the cache file     *)
(* holds the full fresh list, also when the list has no new symbol.        *)
(***************************************************************************)
C26_CacheIsFreshList ==
    (sc_pc = "returned" /\ sc_outcome = "ok") => cache_file = Some(all_symbols)

(***************************************************************************)
(* C27: a refresh that meets an HTTP error status, a transport failure or  *)
(* a malformed or unexpectedly shaped body does not raise: it returns the  *)
(* list cached before (empty without a cache) and leaves the file as it    *)
(* was.                                                                    *)
(***************************************************************************)
C27_RefreshNeverRaises ==
    (sc_pc \in {"returned", "raised"} /\ sc_outcome # "ok") =>
        /\ sc_pc = "returned"
        /\ sc_ret = Some(IF sc_before = None THEN <<>> ELSE sc_before[1])
        /\ cache_file = sc_before

(***************************************************************************)
(* C28: a settlement m whole minutes from now renders as "Payout overdue"  *)
(* for m <= -1, "Payout in {m}min" for 0 <= m < 60, and                    *)
(* "Payout in {m div 60}h {m mod 60}min" for m >= 60 not a multiple of 60. *)
(***************************************************************************)
C28_PayoutRendering ==
    (po_pc = "returned" /\ po_diff % 60 = 0) =>
        LET m == po_diff \div 60
        IN  /\ m <= -1 => po_result = Some(<<"Payout overdue">>)
            /\ (0 <= m /\ m < 60) =>
                  po_result = Some(<<"Payout in ">> \o Decimal(m) \o <<"min">>)
            /\ (m >= 60 /\ m % 60 # 0) =>
                  po_result = Some(<<"Payout in ">> \o Decimal(m \div 60) \o <<"h ">>
                                   \o Decimal(m % 60) \o <<"min">>)

\* 90 minutes ahead renders "Payout in 1h 30min"
C28_Witness ==
    /\ po_pc = "returned"
    /\ po_diff = 90 * 60
    /\ po_result = Some(<<"Payout in ", "1", "h ", "3", "0", "min">>)

(***************************************************************************)
(* C29: formatting a template that references a named placeholder without  *)
(* a supplied value returns the raw template string and raises nothing.    *)
(***************************************************************************)
MissingNamed(template, kwargs) ==
    \E i \in 1 .. Len(template) :
        template[i].kind = "named" /\ template[i].text \notin kwargs

C29_RawTemplateReturned ==
    (tp_pc # "input" /\ MissingNamed(tp_template, tp_kwargs)) =>
        /\ tp_pc = "returned"
        /\ tp_result = Some(RawText(tp_template))

(***************************************************************************)
(* C30: for every list of lines and every character budget, no chunk of    *)
(* chunk_text is longer than the budget.                                   *)
(***************************************************************************)
C30_ChunksWithinBudget ==
    ck_pc = "returned" => \A i \in 1 .. Len(chunks) : Len(chunks[i]) <= max_chars

(***************************************************************************)
(* C31: a tick that lands in minute 30, where both triggers fall, collects *)
(* and persists before it composes: when the dispatch of that tick is due, *)
(* the tick enters collection first, and once the collection has returned, *)
(* however long it took, the dispatch of the same tick fires.              *)
(***************************************************************************)
C31_CollectBeforeDispatch ==
    [][ /\ ( /\ sched_pc = "tick"
             /\ should_collect_data(clock)
             /\ AlertTrigger(MinuteOfHour(clock), last_alert_minute) )
            => sched_pc' = "collecting"
        /\ ( /\ sched_pc \in {"collecting", "hung"}
             /\ sched_pc' = "check_alert" )
            => AlertTrigger(current_minute', last_alert_minute') ]_vars

(***************************************************************************)
(* C32: every request of a pass is preceded by the inter-request delay: a  *)
(* worker issues its request only out of its delay, never straight from    *)
(* the queue, so that the first requests of a batch do not go out          *)
(* together.                                                               *)
(***************************************************************************)
C32_DelayBeforeRequest ==
    [][ \A i \in Workers :
          (i \in DOMAIN worker_pc' /\ worker_pc[i] # "fetching"
                                   /\ worker_pc'[i] = "fetching")
              => worker_pc[i] = "sleeping" ]_vars

(***************************************************************************)
(* C33: every negative delta renders as overdue: a settlement earlier than *)
(* now, be it by less than a minute, gives "Payout overdue".               *)
(***************************************************************************)
C33_NegativeIsOverdue ==
    (po_pc = "returned" /\ po_diff < 0) => po_result = Some(<<"Payout overdue">>)

C40_NoTopicKeepsIdentity ==
    (responses # <<>> /\ payload.message_thread_id = None)
        => payload.chat_id = chat_id

(***************************************************************************)
(* C36: within one dispatch batch the inter-message delay elapses between  *)
(* every two successive sends: a send starts no sooner than                *)
(* TELEGRAM_CHUNK_DELAY after the send before it has ended, be it a header *)
(* and the first message of its level, two messages, or the last message   *)
(* of level 1 and the header of level 2.                                   *)
(***************************************************************************)
C36_DelayBetweenSends ==
    /\ TELEGRAM_CHUNK_DELAY > 0
    /\ \A i \in 1 .. (Len(fl_sent) - 1) :
          fl_sent[i + 1].start >= fl_sent[i].end + TELEGRAM_CHUNK_DELAY

\* a batch of two level 1 messages, the second of level 2 as well: the
\* header of level 2 went out after the last message of level 1
C36_Witness ==
    /\ fl_pc = "returned"
    /\ Len(level_1_messages) = 2
    /\ level_2_messages = <<2>>
    /\ Len(fl_sent) = 5
    /\ fl_sent[3].item = [level |-> 1, text |-> 2]
    /\ fl_sent[4].item = [level |-> 2, text |-> "header"]
    /\ fl_sent[4].start = fl_sent[3].end + TELEGRAM_CHUNK_DELAY

(***************************************************************************)
(* C37: for Binance, Bybit and Bitget, which do not report the next        *)
(* settlement, the extracted next-settlement time is the funding timestamp *)
(* of the response plus 8 hours (28,800,000 ms) and the cycle is 8; for    *)
(* OKX and MEXC the settlement time the response reports is used as is.    *)
(***************************************************************************)
C37_SettlementFromResponse ==
    (xi_pc = "returned" /\ xi_result # None) =>
        LET info == xi_result[1]
        IN  /\ xi_exchange \in {"Binance", "Bybit", "Bitget"} =>
                  /\ xi_data.time # None
                  /\ info.nextSettleTime = xi_data.time[1] + 28800000
                  /\ info.collectCycle = 8
            /\ xi_exchange \in {"OKX", "MEXC"} =>
                  /\ xi_data.time # None
                  /\ info.nextSettleTime = xi_data.time[1]

(***************************************************************************)
(* C38: save_funding_rates leaves the record of a ticker that is absent    *)
(* from its input as it was, all slots and the timestamp, and              *)
(* get_latest_funding_rates returns that ticker after the call exactly     *)
(* when it returned it before: a ticker no longer reported keeps its last  *)
(* record.                                                                 *)
(***************************************************************************)
Absent(funding_data, ticker) ==
    \A e \in DOMAIN funding_data : \A i \in 1 .. Len(funding_data[e]) :
        SymbolTicker(funding_data[e][i][1], e) # ticker

Returned(table, threshold, r) ==
    LET result == get_latest_funding_rates(table, threshold)
    IN  \E k \in 1 .. Len(result) : result[k] = ResultItem(r)

C38_AbsentTickerKept ==
    db_call.op \in {"save", "save_again"} =>
        \A r \in db_call.before :
            Absent(db_call.arg, r.ticker) =>
                /\ r \in funding_rates
                /\ \A x \in funding_rates : x.ticker = r.ticker => x = r
                /\ \A th \in {0, 10, FUNDING_THRESHOLD_LEVEL_1} :
                      Returned(funding_rates, th, r) <=> Returned(db_call.before, th, r)

\* a day after a pass that stored BTC, a pass that reports only ETH has been
\* saved: the record of BTC still has the timestamp of the first pass
C38_Witness ==
    /\ db_call.op = "save"
    /\ db_now = Day
    /\ \E r \in funding_rates :
          /\ r.timestamp = 0
          /\ r \in db_call.before
          /\ Absent(db_call.arg, r.ticker)
          /\ Returned(funding_rates, FUNDING_THRESHOLD_LEVEL_1, r)
    /\ \E x \in funding_rates : x.timestamp = Day

(***************************************************************************)
(* C39: the records a collection pass stores are determined by the set of  *)
(* data fetched, not by the order in which the fetches of an exchange      *)
(* completed: saving the same entries of an exchange in another order of   *)
(* completion gives the same table, also when two symbols of the exchange  *)
(* normalize to the same ticker.                                           *)
(***************************************************************************)
Reordered(items) ==
    { [i \in 1 .. Len(items) |-> items[f[i]]] :
        f \in { g \in [1 .. Len(items) -> 1 .. Len(items)] :
                  \A i, j \in 1 .. Len(items) : i # j => g[i] # g[j] } }

C39_CompletionOrderIrrelevant ==
    db_call.op = "save" =>
        \A e \in ExchangeSet : \A items \in Reordered(db_call.arg[e]) :
            save_funding_rates(db_call.before, [db_call.arg EXCEPT ![e] = items], db_now)
                = funding_rates

=============================================================================
